---- MODULE Spec2Model ----
(***************************************************************************)
(* Model of the manim-api service: the FastAPI endpoints of api.py, the    *)
(* renderer and the generation orchestrator of render_service.py and the   *)
(* content generator of llm_service.py.                                    *)
(*                                                                         *)
(* Scheduling.  Both endpoints are `async def` coroutines whose bodies hold *)
(* no await: a handler occupies the single event-loop thread from its      *)
(* first statement to its return (variable loop).  Streaming a response    *)
(* needs the loop to be free.  cleanup_render is a plain function, so the  *)
(* background task runs it on a worker thread, whose steps interleave with *)
(* whatever the loop is doing.  The lifespan shutdown code runs after the  *)
(* server has drained its connections and tasks.                           *)
(*                                                                         *)
(* Text functions.  retrieve_relevant_knowledge of manim_knowledge_base.py *)
(* and _extract_code, _post_process_code and _is_code_scrambled of         *)
(* llm_service.py are operators on tuples of characters, applied to drawn  *)
(* arguments under SpecText.                                               *)
(***************************************************************************)
EXTENDS Integers, Sequences, FiniteSets, TLC

(* ------------------------------ bounds --------------------------------- *)
NumReqs == 2
DetailReqs == 1
MaxClasses == 3

(* ------------------------- program constants --------------------------- *)
max_attempts == 2
max_code_attempts == 3

Reqs == 1..NumReqs

(* --------------------------- text of the code -------------------------- *)
(* A line of code is a tuple of characters, a code text a tuple of lines.  *)
L_FromManimlibStar == <<"f", "r", "o", "m", " ", "m", "a", "n", "i", "m", "l", "i", "b", " ", "i", "m", "p", "o", "r", "t", " ", "*">>
L_ImportManimlib == <<"i", "m", "p", "o", "r", "t", " ", "m", "a", "n", "i", "m", "l", "i", "b">>
L_FromManimStar == <<"f", "r", "o", "m", " ", "m", "a", "n", "i", "m", " ", "i", "m", "p", "o", "r", "t", " ", "*">>
L_ImportManim == <<"i", "m", "p", "o", "r", "t", " ", "m", "a", "n", "i", "m">>
L_FromManifStar == <<"f", "r", "o", "m", " ", "m", "a", "n", "i", "f", " ", "i", "m", "p", "o", "r", "t", " ", "*">>
L_Body == <<"x", " ", "=", " ", "1">>
L_Trailing == <<"x", " ", "=", " ", "1", " ", "#", " ", "i", "m", "p", "o", "r", "t", " ", "m", "a", "n", "i", "m">>

N_FromManimImport == <<"f", "r", "o", "m", " ", "m", "a", "n", "i", "m", " ", "i", "m", "p", "o", "r", "t">>
N_ImportManim == <<"i", "m", "p", "o", "r", "t", " ", "m", "a", "n", "i", "m">>
N_FromManimlibImport == <<"f", "r", "o", "m", " ", "m", "a", "n", "i", "m", "l", "i", "b", " ", "i", "m", "p", "o", "r", "t">>
N_FromManif == <<"f", "r", "o", "m", " ", "m", "a", "n", "i", "f">>
N_ImportManif == <<"i", "m", "p", "o", "r", "t", " ", "m", "a", "n", "i", "f">>

\* Python's `needle in line`
InLine(needle, line) ==
    \E i \in 1..(Len(line) - Len(needle) + 1) :
        SubSeq(line, i, i + Len(needle) - 1) = needle

\* Python's `needle in code` for a needle without a newline
InCode(needle, text) == \E k \in 1..Len(text) : InLine(needle, text[k])

(* ------------------------------ values --------------------------------- *)
NoDir == <<0, 0>>
NoErr == <<>>
NoStem == <<"none", 0, 0>>
NoPath == [dir |-> NoDir, stem |-> NoStem]

\* the directory the service was started in
ServiceDir == <<0, 1>>
NoCode == [text |-> <<>>, syntaxOK |-> FALSE, compiles |-> FALSE, scrambled |-> FALSE]

\* the tempfile.mkdtemp directory of attempt a of request r
Workspaces == Reqs \X (0..(max_attempts - 1))

\* file stems a scene can leave in the output directory under another name
FallbackStems == {<<"scene", 0, 0>>}
ExpectedStem(ws) == <<"output", ws[1], ws[2]>>
Keys == {ExpectedStem(ws) : ws \in Workspaces} \cup FallbackStems

RenderResult(video_path, temp_dir, success, error) ==
    [video_path |-> video_path, temp_dir |-> temp_dir,
     success |-> success, error |-> error]
NoResult == RenderResult(NoPath, NoDir, FALSE, NoErr)

\* code a caller may post to /render
RequestCodes ==
    { [text |-> <<L_FromManimlibStar, L_Body>>, syntaxOK |-> TRUE, compiles |-> TRUE, scrambled |-> FALSE],
      [text |-> <<L_FromManimlibStar, L_Body>>, syntaxOK |-> FALSE, compiles |-> FALSE, scrambled |-> FALSE],
      [text |-> <<L_ImportManimlib, L_Body>>, syntaxOK |-> TRUE, compiles |-> TRUE, scrambled |-> FALSE],
      [text |-> <<L_Body, L_ImportManim>>, syntaxOK |-> TRUE, compiles |-> TRUE, scrambled |-> FALSE],
      [text |-> <<L_FromManifStar, L_Body>>, syntaxOK |-> TRUE, compiles |-> TRUE, scrambled |-> FALSE],
      [text |-> <<L_FromManimlibStar, L_Trailing>>, syntaxOK |-> TRUE, compiles |-> TRUE, scrambled |-> FALSE] }

\* post-processed code-stage outputs of the model (the import line is always
\* present after _post_process_code)
\* syntaxOK: ast.parse accepts the text; compiles: compile(text, .., 'exec')
\* accepts it.  compile also runs the checks of the symbol table, so it
\* rejects texts that parse: `from manimlib import *` inside a method (import *
\* only allowed at module level), `return` outside a function
GeneratedCodes ==
    { [text |-> <<L_FromManimlibStar, L_Body>>, syntaxOK |-> TRUE, compiles |-> TRUE, scrambled |-> FALSE],
      [text |-> <<L_FromManimlibStar, L_Body>>, syntaxOK |-> FALSE, compiles |-> FALSE, scrambled |-> FALSE],
      [text |-> <<L_FromManimlibStar, L_Body>>, syntaxOK |-> TRUE, compiles |-> TRUE, scrambled |-> TRUE],
      [text |-> <<L_FromManimlibStar, L_FromManimStar>>, syntaxOK |-> TRUE, compiles |-> TRUE, scrambled |-> FALSE],
      [text |-> <<L_FromManimlibStar, L_Trailing>>, syntaxOK |-> TRUE, compiles |-> TRUE, scrambled |-> FALSE],
      [text |-> <<L_FromManimlibStar, L_Body>>, syntaxOK |-> TRUE, compiles |-> FALSE, scrambled |-> FALSE],
      [text |-> <<L_FromManimlibStar, L_ImportManimlib>>, syntaxOK |-> TRUE, compiles |-> TRUE, scrambled |-> FALSE] }

(* ------------------------------- state --------------------------------- *)
VARIABLES
    pc,         \* position of each request
    kind,       \* "none", "render" (POST /render) or "generate" (POST /generate)
    loop,       \* request whose handler occupies the event loop, 0 if free
    code,       \* the code handed to render_code
    att,        \* generate_video: attempt (0-based); fixes the workspace name
    result,     \* RenderResult returned by render_code / generate_video
    exc,        \* exception in flight
    status,     \* HTTP status of the response, 0 before there is one
    loadedIn,   \* process in which the code of the render was loaded
    fs,         \* workspace directories on disk
    registry,   \* _active_renders: key -> RenderResult (NoResult: absent)
    cleanups,   \* history: cleanup() calls per workspace (counted up to 2)
    shutdown,   \* "up", "drain", "down"
    drainTodo,  \* lifespan: keys still to be visited by the for loop
    drainSnap,  \* history: directories registered when shutdown began
    reqKey,     \* the request carries an api_key
    apiKey,     \* generate_manim_content: api_key after its resolution
    sentKey,    \* history: the key given to the last model call
    stages,     \* history: the stage calls and returns of the current attempt
    body,       \* the body of the response: its JSON field and text
    module,     \* the Scene subclasses of a code module, in definition order
    scene_name, \* the scene name asked for, 0 for None
    outdir,     \* the files a scene run left in the output directory
    unit,       \* which function has been applied to these inputs
    picked,     \* find_scene_class: the class returned, 0 when it raised
    todo,       \* manim_runner: scene_classes
    rendered,   \* manim_runner: the scenes run so far and their file names
    video,      \* render_code: video_path after the discovery
    health,     \* the GET /health request in flight: "none" or "waiting"
    healthAt,   \* the request whose handler ran when GET /health arrived
    defaultKey, \* GROQ_API_KEY is set in the environment
    calls,      \* model calls: of the current generate_manim_content call
                \* (sb, sc, cg) and of the whole generate_video call (t*)
    cat,        \* generate_manim_content: code-stage attempt (0-based)
    lastCodeErr,\* generate_manim_content: last_code_error
    lastErr,    \* generate_video: last_error
    audio,      \* the mkstemp narration file of the attempt is on disk
    attErrs,    \* history: the error of each failed generate_video attempt
    gmPrompts,  \* history: the prompts given to generate_manim_content
    cgLog,      \* history: the prompt, the code and the validation error of each
                \* code-stage attempt of the current generate_manim_content call
    cwd,        \* the working directory of the service process
    prev_cwd,   \* working_directory: prev_cwd of the call in progress
    cwd0,       \* history: the working directory when render_code was called
    arg,        \* the arguments a text function is applied to
    ret,        \* what the text function returned
    textual     \* error texts and call counts are kept as they are (TRUE)
                \* or every text is read as one token, calls uncounted

reqVars == <<textual, pc, kind, loop, code, att, result, exc, status, loadedIn>>
diskVars == <<fs, registry, cleanups>>
downVars == <<shutdown, drainTodo, drainSnap>>
genVars == <<reqKey, defaultKey, calls, cat, lastCodeErr, lastErr, audio,
             attErrs, gmPrompts>>
keyVars == <<apiKey, sentKey>>
stageVars == <<stages>>
healthVars == <<health, healthAt>>
respVars == <<body>>
unitVars == <<module, scene_name, outdir, unit, picked, todo, rendered, video>>
textVars == <<arg, ret>>
codeVars == <<cgLog>>
cwdVars == <<cwd, prev_cwd, cwd0>>
vars == <<reqVars, diskVars, downVars, genVars, keyVars, stageVars, healthVars, respVars,
         unitVars, textVars, codeVars, cwdVars>>

NoBody == [field |-> "none", text |-> <<>>]

\* FileResponse(path = str(result.video_path), ...)
FileBody == [field |-> "file", text |-> <<>>]

\* http_exception_handler: JSONResponse(content = {"detail": exc.detail})
http_exception_handler(detail) == [field |-> "detail", text |-> detail]

\* global_exception_handler: JSONResponse(status_code = 500, content =
\* {"detail": f"Internal server error: {error_detail}"})
global_exception_handler(error_detail) ==
    [field |-> "detail", text |-> <<"Internal server error:">> \o error_detail]

\* the RuntimeError of a FileResponse whose file does not exist
FileGone == <<"File at path does not exist">>

NoVideo == [stem |-> NoStem, parts |-> <<>>]

NoCalls == [sb |-> 0, sc |-> 0, cg |-> 0, tsb |-> 0, tsc |-> 0, tcg |-> 0,
            gm |-> 0, tts |-> 0, kn |-> 0]

InitState ==
    /\ pc = [r \in Reqs |-> "idle"]
    /\ kind = [r \in Reqs |-> "none"]
    /\ loop = 0
    /\ code = [r \in Reqs |-> NoCode]
    /\ att = [r \in Reqs |-> 0]
    /\ result = [r \in Reqs |-> NoResult]
    /\ exc = [r \in Reqs |-> NoErr]
    /\ status = [r \in Reqs |-> 0]
    /\ loadedIn = [r \in Reqs |-> "none"]
    /\ fs = {}
    /\ registry = [k \in Keys |-> NoResult]
    /\ cleanups = [w \in Workspaces |-> 0]
    /\ shutdown = "up"
    /\ drainTodo = {}
    /\ drainSnap = {}
    /\ reqKey = [r \in Reqs |-> FALSE]
    /\ apiKey = [r \in Reqs |-> "none"]
    /\ sentKey = [r \in Reqs |-> "none"]
    /\ stages = [r \in Reqs |-> <<>>]
    /\ cgLog = [r \in Reqs |-> <<>>]
    /\ body = [r \in Reqs |-> NoBody]
    /\ health = "none"
    /\ healthAt = 0
    /\ defaultKey \in BOOLEAN
    /\ calls = [r \in Reqs |-> NoCalls]
    /\ cat = [r \in Reqs |-> 0]
    /\ lastCodeErr = [r \in Reqs |-> NoErr]
    /\ lastErr = [r \in Reqs |-> NoErr]
    /\ audio = [r \in Reqs |-> FALSE]
    /\ attErrs = [r \in Reqs |-> <<>>]
    /\ gmPrompts = [r \in Reqs |-> <<>>]
    /\ cwd = ServiceDir
    /\ prev_cwd = [r \in Reqs |-> NoDir]
    /\ cwd0 = [r \in Reqs |-> NoDir]


NoUnit ==
    /\ module = <<>>
    /\ scene_name = 0
    /\ outdir = {}
    /\ unit = "none"
    /\ picked = 0
    /\ todo = <<>>
    /\ rendered = <<>>
    /\ video = NoVideo
    /\ arg = [fn |-> "none"]
    /\ ret = <<>>

\* the service under concurrent requests; texts abstracted
Init == InitState /\ NoUnit /\ textual = FALSE

\* one request followed through the service, texts and counts kept
InitCall == InitState /\ NoUnit /\ textual = TRUE

\* str(e), error strings: abstracted to one token unless textual
Text(e) == IF textual THEN e ELSE <<"error">>
Count(n) == IF textual THEN n + 1 ELSE n
Logged(h, x) == IF textual THEN Append(h, x) ELSE h
Admitted == IF textual THEN DetailReqs ELSE NumReqs

(* ------------------------------ helpers -------------------------------- *)
WS(r) == <<r, att[r]>>

\* a cleanup without the `exists()` guard and without ignore_errors: deleting
\* an absent directory raises
cleanupUnguarded(dirs, temp_dir) ==
    IF temp_dir = NoDir THEN [fs |-> dirs, raised |-> FALSE]
    ELSE [fs |-> dirs \ {temp_dir}, raised |-> temp_dir \notin dirs]

\* RenderResult.cleanup: the directories left on disk, and whether it raised
cleanup(dirs, temp_dir) ==
    IF temp_dir # NoDir /\ temp_dir \in dirs
    THEN [fs |-> dirs \ {temp_dir}, raised |-> FALSE]
    ELSE [fs |-> dirs, raised |-> FALSE]

Counted(c, temp_dir) ==
    IF temp_dir = NoDir THEN c
    ELSE [c EXCEPT ![temp_dir] = IF @ < 2 THEN @ + 1 ELSE @]

\* an illegal-import check that would look for `from manim import` only
RenderDeniedFromOnly(text) ==
    IF InCode(N_FromManimImport, text)
    THEN <<"uses manim instead of manimlib">>
    ELSE IF InCode(N_FromManif, text) \/ InCode(N_ImportManif, text)
    THEN <<"hallucinated module manif">>
    ELSE NoErr

\* the illegal-import check of render_code
RenderDenied(text) ==
    IF InCode(N_FromManimImport, text) \/ InCode(N_ImportManim, text)
    THEN <<"uses manim instead of manimlib">>
    ELSE IF InCode(N_FromManif, text) \/ InCode(N_ImportManif, text)
    THEN <<"hallucinated module manif">>
    ELSE NoErr

\* `except Exception` around the body of render_code
RenderCodeCatches(e) == TRUE

\* where control goes when render_code returns, or raises, to its caller
OnReturn(r) == IF kind[r] = "render" THEN "ep_check" ELSE "gv_after"
OnRaise(r) == IF kind[r] = "render" THEN "ep_except" ELSE "gv_except"

\* endpoints that would run in a pool of threads: a handler starts at once
HandlerStartsAtOnce(r) == TRUE

\* an async endpoint starts when the event loop is free
HandlerMayStart(r) == loop = 0

\* the handler has returned: its locals are gone
Returned(r) ==
    /\ loop' = 0
    /\ code' = [code EXCEPT ![r] = NoCode]
    /\ att' = [att EXCEPT ![r] = 0]
    /\ exc' = [exc EXCEPT ![r] = NoErr]
    /\ loadedIn' = [loadedIn EXCEPT ![r] = "none"]
    /\ reqKey' = [reqKey EXCEPT ![r] = FALSE]
    /\ apiKey' = [apiKey EXCEPT ![r] = "none"]
    /\ sentKey' = [sentKey EXCEPT ![r] = "none"]
    /\ stages' = [stages EXCEPT ![r] = <<>>]
    /\ cgLog' = [cgLog EXCEPT ![r] = <<>>]
    /\ calls' = [calls EXCEPT ![r] = NoCalls]
    /\ cat' = [cat EXCEPT ![r] = 0]
    /\ lastCodeErr' = [lastCodeErr EXCEPT ![r] = NoErr]
    /\ lastErr' = [lastErr EXCEPT ![r] = NoErr]
    /\ attErrs' = [attErrs EXCEPT ![r] = <<>>]
    /\ gmPrompts' = [gmPrompts EXCEPT ![r] = <<>>]
    /\ kind' = [kind EXCEPT ![r] = "none"]
    /\ prev_cwd' = [prev_cwd EXCEPT ![r] = NoDir]
    /\ cwd0' = [cwd0 EXCEPT ![r] = NoDir]
    /\ UNCHANGED <<textual, defaultKey, audio, cwd>>

(* --------------------------- request arrival --------------------------- *)
Arrive(r) ==
    /\ pc[r] = "idle"
    /\ shutdown = "up"
    /\ r <= Admitted
    /\ \A q \in Reqs : q < r => pc[q] # "idle"
    /\ \/ /\ kind' = [kind EXCEPT ![r] = "render"]
          /\ \E c \in RequestCodes : code' = [code EXCEPT ![r] = c]
          /\ UNCHANGED reqKey
       \/ /\ kind' = [kind EXCEPT ![r] = "generate"]
          /\ \E k \in BOOLEAN : reqKey' = [reqKey EXCEPT ![r] = k]
          /\ UNCHANGED code
    /\ pc' = [pc EXCEPT ![r] = "queued"]
    /\ UNCHANGED <<textual, loop, att, result, exc, status, loadedIn>>
    /\ UNCHANGED <<diskVars, downVars>>
    /\ UNCHANGED keyVars
    /\ UNCHANGED <<defaultKey, calls, cat, lastCodeErr, lastErr, audio,
                   attErrs, gmPrompts>>
    /\ UNCHANGED stageVars
    /\ UNCHANGED healthVars
    /\ UNCHANGED respVars
    /\ UNCHANGED unitVars
    /\ UNCHANGED textVars
    /\ UNCHANGED codeVars
    /\ UNCHANGED cwdVars

StartHandler(r) ==
    /\ pc[r] = "queued"
    /\ HandlerMayStart(r)
    /\ loop' = r
    /\ pc' = [pc EXCEPT ![r] = IF kind[r] = "render" THEN "rc_mkdtemp"
                                ELSE "gv_loop"]
    /\ UNCHANGED <<textual, kind, code, att, result, exc, status, loadedIn>>
    /\ UNCHANGED <<diskVars, downVars, genVars, keyVars>>
    /\ UNCHANGED stageVars
    /\ UNCHANGED healthVars
    /\ UNCHANGED respVars
    /\ UNCHANGED unitVars
    /\ UNCHANGED textVars
    /\ UNCHANGED codeVars
    /\ UNCHANGED cwdVars

(* ----------------------------- render_code ----------------------------- *)
\* a failure inside the try block: the handler at the end of render_code
RcFail(r, e) ==
    /\ exc' = [exc EXCEPT ![r] = Text(e)]
    /\ pc' = [pc EXCEPT ![r] = IF RenderCodeCatches(e) THEN "rc_except"
                                ELSE OnRaise(r)]

RcStep(r, next) ==
    /\ pc' = [pc EXCEPT ![r] = next]
    /\ UNCHANGED exc

\* temp_dir = Path(tempfile.mkdtemp(...)), before the try block
RcMkdtemp(r) ==
    /\ pc[r] = "rc_mkdtemp"
    /\ \/ /\ fs' = fs \cup {WS(r)}
          /\ RcStep(r, "rc_assets")
       \/ /\ exc' = [exc EXCEPT ![r] = Text(<<"mkdtemp: OSError">>)]
          /\ pc' = [pc EXCEPT ![r] = OnRaise(r)]
          /\ UNCHANGED fs
    /\ UNCHANGED <<textual, kind, loop, code, att, result, status, loadedIn>>
    /\ stages' = [stages EXCEPT ![r] =
           IF kind[r] = "generate" THEN Logged(@, "render_code") ELSE @]
    /\ UNCHANGED <<registry, cleanups>>
    /\ UNCHANGED <<downVars, genVars, keyVars>>
    /\ UNCHANGED healthVars
    /\ UNCHANGED respVars
    /\ UNCHANGED unitVars
    /\ UNCHANGED textVars
    /\ UNCHANGED codeVars
    /\ cwd0' = [cwd0 EXCEPT ![r] = cwd]
    /\ UNCHANGED <<cwd, prev_cwd>>

\* the assets (the narration of /generate) and the code file are written
RcWrite(r) ==
    /\ pc[r] = "rc_assets"
    /\ \/ RcStep(r, "rc_compile")
       \/ RcFail(r, <<"write: OSError">>)
    /\ UNCHANGED <<textual, kind, loop, code, att, result, status, loadedIn>>
    /\ UNCHANGED <<diskVars, downVars, genVars, keyVars>>
    /\ UNCHANGED stageVars
    /\ UNCHANGED healthVars
    /\ UNCHANGED respVars
    /\ UNCHANGED unitVars
    /\ UNCHANGED textVars
    /\ UNCHANGED codeVars
    /\ UNCHANGED cwdVars

\* compile(code, code_file, 'exec')
RcCompile(r) ==
    /\ pc[r] = "rc_compile"
    /\ IF code[r].compiles
       THEN RcStep(r, "rc_denylist")
       ELSE RcFail(r, <<"syntax errors">>)
    /\ UNCHANGED <<textual, kind, loop, code, att, result, status, loadedIn>>
    /\ UNCHANGED <<diskVars, downVars, genVars, keyVars>>
    /\ UNCHANGED stageVars
    /\ UNCHANGED healthVars
    /\ UNCHANGED respVars
    /\ UNCHANGED unitVars
    /\ UNCHANGED textVars
    /\ UNCHANGED codeVars
    /\ UNCHANGED cwdVars

RcDenylist(r) ==
    /\ pc[r] = "rc_denylist"
    /\ IF RenderDenied(code[r].text) = NoErr
       THEN RcStep(r, "rc_load")
       ELSE RcFail(r, RenderDenied(code[r].text))
    /\ UNCHANGED <<textual, kind, loop, code, att, result, status, loadedIn>>
    /\ UNCHANGED <<diskVars, downVars, genVars, keyVars>>
    /\ UNCHANGED stageVars
    /\ UNCHANGED healthVars
    /\ UNCHANGED respVars
    /\ UNCHANGED unitVars
    /\ UNCHANGED textVars
    /\ UNCHANGED codeVars
    /\ UNCHANGED cwdVars

\* the process in which render_code loads and runs the scene code
LoaderProcess == "service"

\* spec.loader.exec_module(module)
RcLoad(r) ==
    /\ pc[r] = "rc_load"
    /\ loadedIn' = [loadedIn EXCEPT ![r] = LoaderProcess]
    /\ \/ RcStep(r, "rc_find")
       \/ RcFail(r, <<"module raised">>)
    /\ UNCHANGED <<textual, kind, loop, code, att, result, status>>
    /\ UNCHANGED <<diskVars, downVars, genVars, keyVars>>
    /\ UNCHANGED stageVars
    /\ UNCHANGED healthVars
    /\ UNCHANGED respVars
    /\ UNCHANGED unitVars
    /\ UNCHANGED textVars
    /\ UNCHANGED codeVars
    /\ UNCHANGED cwdVars

\* find_scene_class
RcFind(r) ==
    /\ pc[r] = "rc_find"
    /\ \/ RcStep(r, "rc_chdir")
       \/ RcFail(r, <<"No Scene classes found">>)
    /\ UNCHANGED <<textual, kind, loop, code, att, result, status, loadedIn>>
    /\ UNCHANGED <<diskVars, downVars, genVars, keyVars>>
    /\ UNCHANGED stageVars
    /\ UNCHANGED healthVars
    /\ UNCHANGED respVars
    /\ UNCHANGED unitVars
    /\ UNCHANGED textVars
    /\ UNCHANGED codeVars
    /\ UNCHANGED cwdVars

\* with working_directory(temp_dir): prev_cwd = os.getcwd(); os.chdir(path)
RcChdir(r) ==
    /\ pc[r] = "rc_chdir"
    /\ prev_cwd' = [prev_cwd EXCEPT ![r] = cwd]
    /\ cwd' = WS(r)
    /\ RcStep(r, "rc_run")
    /\ UNCHANGED cwd0
    /\ UNCHANGED <<textual, kind, loop, code, att, result, status, loadedIn>>
    /\ UNCHANGED <<diskVars, downVars, genVars, keyVars>>
    /\ UNCHANGED stageVars
    /\ UNCHANGED healthVars
    /\ UNCHANGED respVars
    /\ UNCHANGED unitVars
    /\ UNCHANGED textVars
    /\ UNCHANGED codeVars

\* a context manager that would leave the directory as the block left it
NotRestored(prev, now) == now

\* finally: os.chdir(prev_cwd)
Restored(prev, now) == prev

\* scene = scene_class(...); scene.run(), in the service process: the run
\* ends, raises, or never returns (rc_hung); the with block is left through
\* the finally of working_directory in the first two cases, and the frame of
\* the context manager is gone
RcRun(r) ==
    /\ pc[r] = "rc_run"
    /\ \/ /\ RcStep(r, "rc_discover")
          /\ cwd' = Restored(prev_cwd[r], cwd)
          /\ prev_cwd' = [prev_cwd EXCEPT ![r] = NoDir]
       \/ /\ RcFail(r, <<"scene raised">>)
          /\ cwd' = Restored(prev_cwd[r], cwd)
          /\ prev_cwd' = [prev_cwd EXCEPT ![r] = NoDir]
       \/ /\ RcStep(r, "rc_hung")
          /\ UNCHANGED <<cwd, prev_cwd>>
    /\ UNCHANGED cwd0
    /\ UNCHANGED <<textual, kind, loop, code, att, result, status, loadedIn>>
    /\ UNCHANGED <<diskVars, downVars, genVars, keyVars>>
    /\ UNCHANGED stageVars
    /\ UNCHANGED healthVars
    /\ UNCHANGED respVars
    /\ UNCHANGED unitVars
    /\ UNCHANGED textVars
    /\ UNCHANGED codeVars

\* what a scene run of the service leaves in the output directory: nothing,
\* the expected file, or one file of another name
OutputDirs(ws) == {{}, {ExpectedStem(ws)}} \cup {{f} : f \in FallbackStems}

\* the video_path the discovery can end with (none: FileNotFoundError): the
\* expected file when it exists, else video_files[0] of a glob whose order is
\* the directory's
Discover(out, ws) == IF ExpectedStem(ws) \in out THEN {ExpectedStem(ws)} ELSE out

\* the expected file, else the first file with the extension, else an error
RcDiscover(r) ==
    /\ pc[r] = "rc_discover"
    /\ \E out \in OutputDirs(WS(r)) :
          \/ /\ \E stem \in Discover(out, WS(r)) :
                   result' = [result EXCEPT ![r] =
                       RenderResult([dir |-> WS(r), stem |-> stem], WS(r), TRUE, NoErr)]
             /\ RcStep(r, OnReturn(r))
          \/ /\ Discover(out, WS(r)) = {}
             /\ RcFail(r, <<"No video file generated">>)
             /\ UNCHANGED result
    /\ UNCHANGED <<textual, kind, loop, code, att, status, loadedIn>>
    /\ UNCHANGED <<diskVars, downVars, genVars, keyVars>>
    /\ UNCHANGED stageVars
    /\ UNCHANGED healthVars
    /\ UNCHANGED respVars
    /\ UNCHANGED unitVars
    /\ UNCHANGED textVars
    /\ UNCHANGED codeVars
    /\ UNCHANGED cwdVars

\* an except handler that would remove the workspace before it returns
ExceptRemoves(dirs, temp_dir) == dirs \ {temp_dir}

\* the except handler of render_code leaves the workspace on disk
ExceptLeaves(dirs, temp_dir) == dirs

\* except Exception as e: debug_info = os.getcwd(), os.listdir('.') ...
RcExcept(r) ==
    /\ pc[r] = "rc_except"
    /\ \/ /\ result' = [result EXCEPT ![r] =
                RenderResult(NoPath, WS(r), FALSE, Text(exc[r] \o <<"debug_info">>))]
          /\ exc' = [exc EXCEPT ![r] = NoErr]
          /\ pc' = [pc EXCEPT ![r] = OnReturn(r)]
       \/ /\ exc' = [exc EXCEPT ![r] = Text(<<"debug_info: OSError">>)]
          /\ pc' = [pc EXCEPT ![r] = OnRaise(r)]
          /\ UNCHANGED result
    /\ UNCHANGED <<textual, kind, loop, code, att, status, loadedIn>>
    /\ fs' = ExceptLeaves(fs, WS(r))
    /\ UNCHANGED <<registry, cleanups>>
    /\ UNCHANGED <<downVars, genVars, keyVars>>
    /\ UNCHANGED stageVars
    /\ UNCHANGED healthVars
    /\ UNCHANGED respVars
    /\ UNCHANGED unitVars
    /\ UNCHANGED textVars
    /\ UNCHANGED codeVars
    /\ UNCHANGED cwdVars

(* --------------- render_animation / generate_video_endpoint ------------ *)
VideoMissing(res) == res.video_path = NoPath \/ res.video_path.dir \notin fs

\* detail = f"Render failed: {result.error}" of /render, result.error of
\* /generate
FailureDetail(k, error) ==
    IF k = "render" THEN Text(<<"Render failed:">> \o error) ELSE error

\* detail = f"Internal error: {str(e)}"
InternalError(e) == Text(<<"Internal error:">> \o e)

\* from `if not result.success` to the return of the FileResponse
EpCheck(r) ==
    /\ pc[r] = "ep_check"
    /\ IF ~result[r].success \/ VideoMissing(result[r])
       THEN LET c == cleanup(fs, result[r].temp_dir) IN
            /\ fs' = c.fs
            /\ cleanups' = Counted(cleanups, result[r].temp_dir)
            /\ status' = [status EXCEPT ![r] =
                   IF ~c.raised /\ ~result[r].success THEN 400 ELSE 500]
            /\ body' = [body EXCEPT ![r] = http_exception_handler(
                   IF c.raised THEN InternalError(<<"cleanup raised">>)
                   ELSE IF ~result[r].success THEN FailureDetail(kind[r], result[r].error)
                   ELSE Text(<<"Video file was not generated">>))]
            /\ pc' = [pc EXCEPT ![r] = "done"]
            /\ result' = [result EXCEPT ![r] = NoResult]
            /\ UNCHANGED registry
       ELSE /\ registry' = [registry EXCEPT ![result[r].video_path.stem] = result[r]]
            /\ status' = [status EXCEPT ![r] = 200]
            /\ body' = [body EXCEPT ![r] = FileBody]
            /\ pc' = [pc EXCEPT ![r] = "send"]
            /\ UNCHANGED <<fs, cleanups, result>>
    /\ Returned(r)
    /\ UNCHANGED downVars
    /\ UNCHANGED healthVars
    /\ UNCHANGED unitVars
    /\ UNCHANGED textVars

\* except Exception as e: raise HTTPException(status_code=500, ...)
EpExcept(r) ==
    /\ pc[r] = "ep_except"
    /\ status' = [status EXCEPT ![r] = 500]
    /\ body' = [body EXCEPT ![r] = http_exception_handler(InternalError(exc[r]))]
    /\ pc' = [pc EXCEPT ![r] = "done"]
    /\ Returned(r)
    /\ UNCHANGED result
    /\ UNCHANGED <<diskVars, downVars>>
    /\ UNCHANGED healthVars
    /\ UNCHANGED unitVars
    /\ UNCHANGED textVars

(* ------------------ the response and its background task --------------- *)
\* the FileResponse is streamed, then its background task is started
SendOK(r) ==
    /\ pc[r] = "send"
    /\ loop = 0
    /\ result[r].video_path.dir \in fs
    /\ pc' = [pc EXCEPT ![r] = "bg_check"]
    /\ UNCHANGED <<textual, kind, loop, code, att, result, exc, status, loadedIn>>
    /\ UNCHANGED <<diskVars, downVars, genVars, keyVars>>
    /\ UNCHANGED stageVars
    /\ UNCHANGED healthVars
    /\ UNCHANGED respVars
    /\ UNCHANGED unitVars
    /\ UNCHANGED textVars
    /\ UNCHANGED codeVars
    /\ UNCHANGED cwdVars

\* the client goes away, or the file is gone: the background task never runs
SendAbort(r) ==
    /\ pc[r] = "send"
    /\ loop = 0
    /\ status' = [status EXCEPT ![r] =
           IF result[r].video_path.dir \in fs THEN @ ELSE 500]
    /\ body' = [body EXCEPT ![r] =
           IF result[r].video_path.dir \in fs THEN @
           ELSE global_exception_handler(FileGone)]
    /\ pc' = [pc EXCEPT ![r] = "aborted"]
    /\ result' = [result EXCEPT ![r] = NoResult]
    /\ UNCHANGED <<textual, kind, loop, code, att, exc, loadedIn>>
    /\ UNCHANGED <<diskVars, downVars, genVars, keyVars>>
    /\ UNCHANGED stageVars
    /\ UNCHANGED healthVars
    /\ UNCHANGED unitVars
    /\ UNCHANGED textVars
    /\ UNCHANGED codeVars
    /\ UNCHANGED cwdVars

TaskKey(r) == result[r].video_path.stem

\* if render_id in _active_renders:
BgCheck(r) ==
    /\ pc[r] = "bg_check"
    /\ IF registry[TaskKey(r)] # NoResult
       THEN pc' = [pc EXCEPT ![r] = "bg_cleanup"] /\ UNCHANGED result
       ELSE /\ pc' = [pc EXCEPT ![r] = "done"]
            /\ result' = [result EXCEPT ![r] = NoResult]
    /\ UNCHANGED <<textual, kind, loop, code, att, exc, status, loadedIn>>
    /\ UNCHANGED <<diskVars, downVars, genVars, keyVars>>
    /\ UNCHANGED stageVars
    /\ UNCHANGED healthVars
    /\ UNCHANGED respVars
    /\ UNCHANGED unitVars
    /\ UNCHANGED textVars
    /\ UNCHANGED codeVars
    /\ UNCHANGED cwdVars

\* _active_renders[render_id].cleanup()
BgCleanup(r) ==
    /\ pc[r] = "bg_cleanup"
    /\ IF registry[TaskKey(r)] = NoResult
       THEN /\ pc' = [pc EXCEPT ![r] = "bg_keyerror"]
            /\ UNCHANGED <<fs, cleanups>>
       ELSE LET c == cleanup(fs, registry[TaskKey(r)].temp_dir) IN
            /\ fs' = c.fs
            /\ cleanups' = Counted(cleanups, registry[TaskKey(r)].temp_dir)
            /\ pc' = [pc EXCEPT ![r] = IF c.raised THEN "bg_raised" ELSE "bg_del"]
    /\ UNCHANGED <<textual, kind, loop, code, att, result, exc, status, loadedIn>>
    /\ UNCHANGED registry
    /\ UNCHANGED <<downVars, genVars, keyVars>>
    /\ UNCHANGED stageVars
    /\ UNCHANGED healthVars
    /\ UNCHANGED respVars
    /\ UNCHANGED unitVars
    /\ UNCHANGED textVars
    /\ UNCHANGED codeVars
    /\ UNCHANGED cwdVars

\* del _active_renders[render_id]
BgDel(r) ==
    /\ pc[r] = "bg_del"
    /\ IF registry[TaskKey(r)] = NoResult
       THEN /\ pc' = [pc EXCEPT ![r] = "bg_keyerror"]
            /\ UNCHANGED registry
       ELSE /\ registry' = [registry EXCEPT ![TaskKey(r)] = NoResult]
            /\ pc' = [pc EXCEPT ![r] = "done"]
    /\ result' = [result EXCEPT ![r] = NoResult]
    /\ UNCHANGED <<textual, kind, loop, code, att, exc, status, loadedIn>>
    /\ UNCHANGED <<fs, cleanups>>
    /\ UNCHANGED <<downVars, genVars, keyVars>>
    /\ UNCHANGED stageVars
    /\ UNCHANGED healthVars
    /\ UNCHANGED respVars
    /\ UNCHANGED unitVars
    /\ UNCHANGED textVars
    /\ UNCHANGED codeVars
    /\ UNCHANGED cwdVars

(* ------------------------------ lifespan ------------------------------- *)
Finished(r) == pc[r] \in {"idle", "done", "aborted", "bg_keyerror", "bg_raised"}

Registered == {k \in Keys : registry[k] # NoResult}

\* the server stops: connections and tasks have drained, the code after
\* `yield` starts
ShutdownBegin ==
    /\ shutdown = "up"
    /\ \A r \in Reqs : Finished(r)
    /\ shutdown' = "drain"
    /\ drainTodo' = Registered
    /\ drainSnap' = {registry[k].temp_dir : k \in Registered}
    /\ UNCHANGED <<reqVars, diskVars, genVars, keyVars>>
    /\ UNCHANGED stageVars
    /\ UNCHANGED healthVars
    /\ UNCHANGED respVars
    /\ UNCHANGED unitVars
    /\ UNCHANGED textVars
    /\ UNCHANGED codeVars
    /\ UNCHANGED cwdVars

\* for render_id, result in _active_renders.items(): result.cleanup()
DrainStep ==
    /\ shutdown = "drain"
    /\ drainTodo # {}
    /\ LET k == CHOOSE k \in drainTodo : TRUE
           c == cleanup(fs, registry[k].temp_dir) IN
       /\ fs' = c.fs
       /\ cleanups' = Counted(cleanups, registry[k].temp_dir)
       /\ IF c.raised
          THEN shutdown' = "failed" /\ drainTodo' = {}
          ELSE shutdown' = shutdown /\ drainTodo' = drainTodo \ {k}
    /\ UNCHANGED <<registry, drainSnap>>
    /\ UNCHANGED <<reqVars, genVars, keyVars>>
    /\ UNCHANGED stageVars
    /\ UNCHANGED healthVars
    /\ UNCHANGED respVars
    /\ UNCHANGED unitVars
    /\ UNCHANGED textVars
    /\ UNCHANGED codeVars
    /\ UNCHANGED cwdVars

\* a shutdown that leaves the registry as it is
RegistryKept == registry

\* _active_renders.clear()
ClearRegistry == [k \in Keys |-> NoResult]

DrainClear ==
    /\ shutdown = "drain"
    /\ drainTodo = {}
    /\ registry' = ClearRegistry
    /\ shutdown' = "down"
    /\ UNCHANGED <<fs, cleanups, drainTodo, drainSnap>>
    /\ UNCHANGED <<reqVars, genVars, keyVars>>
    /\ UNCHANGED stageVars
    /\ UNCHANGED healthVars
    /\ UNCHANGED respVars
    /\ UNCHANGED unitVars
    /\ UNCHANGED textVars
    /\ UNCHANGED codeVars
    /\ UNCHANGED cwdVars

(* ------------------------ generate_manim_content ----------------------- *)
\* an attempt loop that would catch ValueError only
CatchesValueErrorOnly(e) == e = <<"Groq API key is required.">>

\* `except Exception` in the attempt loop of generate_video
GenerateVideoCatches(e) == TRUE

GvRaise(r, e) ==
    /\ exc' = [exc EXCEPT ![r] = Text(e)]
    /\ pc' = [pc EXCEPT ![r] = IF GenerateVideoCatches(e) THEN "gv_except"
                                ELSE "ep_except"]

\* the validation of the code stage: scrambled, illegal imports, ast.parse
Validate(c) ==
    IF c.scrambled THEN <<"scrambled/interleaved">>
    ELSE IF InCode(N_FromManimImport, c.text) THEN <<"illegal import", "from manim import">>
    ELSE IF InCode(N_ImportManim, c.text) THEN <<"illegal import", "import manim">>
    ELSE IF InCode(N_FromManif, c.text) THEN <<"illegal import", "from manif">>
    ELSE IF InCode(N_ImportManif, c.text) THEN <<"illegal import", "import manif">>
    ELSE IF ~c.syntaxOK THEN <<"SyntaxError">>
    ELSE NoErr

\* a code-stage loop that allows one more turn
CodeAttemptsOneMore(k) == k < max_code_attempts

\* the code stage is tried again while attempts remain
CodeAttemptsLeft(k) == k < max_code_attempts - 1

\* a resolution that would prefer the key of the environment
ResolveKeyDefaultFirst(request_key, default_key) ==
    IF default_key THEN "default"
    ELSE IF request_key THEN "request" ELSE "none"

\* the request's key when it has one, else the key of the environment
ResolveKey(request_key, default_key) ==
    IF request_key THEN "request"
    ELSE IF default_key THEN "default" ELSE "none"

\* if not api_key: api_key = self.default_api_key; if not api_key: raise
GmKey(r) ==
    /\ pc[r] = "gm_key"
    /\ apiKey' = [apiKey EXCEPT ![r] = ResolveKey(reqKey[r], defaultKey)]
    /\ IF apiKey'[r] # "none"
       THEN pc' = [pc EXCEPT ![r] = "gm_storyboard"] /\ UNCHANGED exc
       ELSE GvRaise(r, <<"Groq API key is required.">>)
    /\ UNCHANGED <<textual, kind, loop, code, att, result, status, loadedIn>>
    /\ UNCHANGED <<diskVars, downVars, genVars>>
    /\ UNCHANGED sentKey
    /\ UNCHANGED stageVars
    /\ UNCHANGED healthVars
    /\ UNCHANGED respVars
    /\ UNCHANGED unitVars
    /\ UNCHANGED textVars
    /\ UNCHANGED codeVars
    /\ UNCHANGED cwdVars

\* retrieve_relevant_knowledge; self.generate_storyboard(prompt, knowledge,
\* api_key)
GmStoryboard(r) ==
    /\ pc[r] = "gm_storyboard"
    /\ calls' = [calls EXCEPT ![r].sb = Count(@), ![r].tsb = Count(@),
                              ![r].kn = Count(@)]
    /\ sentKey' = [sentKey EXCEPT ![r] = apiKey[r]]
    /\ UNCHANGED apiKey
    /\ \/ pc' = [pc EXCEPT ![r] = "gm_script"] /\ UNCHANGED exc
       \/ GvRaise(r, <<"APIError">>)
    /\ UNCHANGED <<textual, kind, loop, code, att, result, status, loadedIn>>
    /\ UNCHANGED <<reqKey, defaultKey, cat, lastCodeErr, lastErr, audio,
                   attErrs, gmPrompts>>
    /\ UNCHANGED <<diskVars, downVars>>
    /\ UNCHANGED stageVars
    /\ UNCHANGED healthVars
    /\ UNCHANGED respVars
    /\ UNCHANGED unitVars
    /\ UNCHANGED textVars
    /\ UNCHANGED codeVars
    /\ UNCHANGED cwdVars

\* self.generate_script(storyboard_resp, api_key), the extraction of the
\* script, and the second retrieve_relevant_knowledge
GmScript(r) ==
    /\ pc[r] = "gm_script"
    /\ sentKey' = [sentKey EXCEPT ![r] = apiKey[r]]
    /\ UNCHANGED apiKey
    /\ \/ /\ calls' = [calls EXCEPT ![r].sc = Count(@), ![r].tsc = Count(@),
                                    ![r].kn = Count(@)]
          /\ pc' = [pc EXCEPT ![r] = "gm_code"]
          /\ UNCHANGED exc
       \/ /\ calls' = [calls EXCEPT ![r].sc = Count(@), ![r].tsc = Count(@)]
          /\ GvRaise(r, <<"APIError">>)
    /\ UNCHANGED <<textual, kind, loop, code, att, result, status, loadedIn>>
    /\ UNCHANGED <<reqKey, defaultKey, cat, lastCodeErr, lastErr, audio,
                   attErrs, gmPrompts>>
    /\ UNCHANGED <<diskVars, downVars>>
    /\ UNCHANGED stageVars
    /\ UNCHANGED healthVars
    /\ UNCHANGED respVars
    /\ UNCHANGED unitVars
    /\ UNCHANGED textVars
    /\ UNCHANGED codeVars
    /\ UNCHANGED cwdVars

\* a flow that would hand the code to the renderer without a narration
RenderAfterContent == "rc_mkdtemp"

\* code, script = generate_manim_content(...) is followed by the narration
StageAfterContent == "gv_tts"

\* generate_video: an attempt loop that would pass the request's prompt
\* unchanged every time
PromptWithoutHint(r) == [base |-> r, hint |-> NoErr]

\* generate_video: the prompt of an attempt, the request's prompt and the
\* retry hint
EffectivePrompt(r) ==
    [base |-> r,
     hint |-> IF att[r] > 0 /\ lastErr[r] # NoErr THEN lastErr[r] ELSE NoErr]

\* a code stage that would be given the same prompt at every attempt
CodePromptUnchanged(r) == [prompt |-> EffectivePrompt(r), error |-> NoErr]

\* effective_prompt of a code-stage attempt: the prompt of the call, and from
\* the second attempt on the f-string holding last_code_error and the prompt
CodePrompt(r) ==
    [prompt |-> EffectivePrompt(r),
     error |-> IF cat[r] > 0 /\ lastCodeErr[r] # NoErr THEN lastCodeErr[r] ELSE NoErr]

\* one turn of the code-stage loop: generate_code, extraction and
\* post-processing, validation
GmCode(r) ==
    /\ pc[r] = "gm_code"
    /\ calls' = [calls EXCEPT ![r].cg = Count(@), ![r].tcg = Count(@)]
    /\ sentKey' = [sentKey EXCEPT ![r] = apiKey[r]]
    /\ UNCHANGED apiKey
    /\ \/ /\ GvRaise(r, <<"APIError">>)
          /\ cgLog' = [cgLog EXCEPT ![r] =
                 Logged(@, [prompt |-> CodePrompt(r), text |-> <<>>, error |-> NoErr])]
          /\ UNCHANGED <<code, cat, lastCodeErr, stages>>
       \/ \E c \in GeneratedCodes :
            /\ cgLog' = [cgLog EXCEPT ![r] =
                   Logged(@, [prompt |-> CodePrompt(r), text |-> c.text,
                              error |-> Text(Validate(c))])]
            /\ IF Validate(c) = NoErr
               THEN /\ code' = [code EXCEPT ![r] = c]
                    /\ pc' = [pc EXCEPT ![r] = StageAfterContent]
                    /\ stages' = [stages EXCEPT ![r] = Logged(@, "content returned")]
                    /\ UNCHANGED <<exc, cat, lastCodeErr>>
               ELSE /\ lastCodeErr' = [lastCodeErr EXCEPT ![r] = Text(Validate(c))]
                    /\ UNCHANGED <<code, stages>>
                    /\ IF CodeAttemptsLeft(cat[r])
                       THEN /\ cat' = [cat EXCEPT ![r] = @ + 1]
                            /\ UNCHANGED <<pc, exc>>
                       ELSE /\ GvRaise(r, <<"Code generation failed after",
                                           ToString(max_code_attempts), "attempts">>
                                          \o Validate(c))
                            /\ UNCHANGED cat
    /\ UNCHANGED <<textual, kind, loop, att, result, status, loadedIn>>
    /\ UNCHANGED <<reqKey, defaultKey, lastErr, audio, attErrs, gmPrompts>>
    /\ UNCHANGED <<diskVars, downVars>>
    /\ UNCHANGED healthVars
    /\ UNCHANGED respVars
    /\ UNCHANGED unitVars
    /\ UNCHANGED textVars
    /\ UNCHANGED cwdVars

(* ---------------- VideoGenerationService.generate_video ---------------- *)
\* for attempt in range(max_attempts)
AttemptsLeft(a) == a < max_attempts

\* a final result that would carry no error text
GenerationFailedSilently(last_error) == RenderResult(NoPath, NoDir, FALSE, NoErr)

\* return RenderResult(None, None, False, f"Generation failed after ...")
GenerationFailed(last_error) ==
    RenderResult(NoPath, NoDir, FALSE,
                 Text(<<"Generation failed after", ToString(max_attempts), "attempts">>
                      \o last_error))

\* the head of the attempt loop, up to the call of generate_manim_content;
\* after the last attempt, the final return
GvLoop(r) ==
    /\ pc[r] = "gv_loop"
    /\ IF AttemptsLeft(att[r])
       THEN /\ gmPrompts' = [gmPrompts EXCEPT ![r] = Logged(@, EffectivePrompt(r))]
            /\ calls' = [calls EXCEPT ![r].sb = 0, ![r].sc = 0, ![r].cg = 0, ![r].kn = 0,
                                      ![r].gm = Count(@)]
            /\ cat' = [cat EXCEPT ![r] = 0]
            /\ lastCodeErr' = [lastCodeErr EXCEPT ![r] = NoErr]
            /\ stages' = [stages EXCEPT ![r] = Logged(<<>>, "content")]
            /\ cgLog' = [cgLog EXCEPT ![r] = <<>>]
            /\ pc' = [pc EXCEPT ![r] = "gm_key"]
            /\ UNCHANGED result
       ELSE /\ result' = [result EXCEPT ![r] = GenerationFailed(lastErr[r])]
            /\ pc' = [pc EXCEPT ![r] = "ep_check"]
            /\ UNCHANGED <<gmPrompts, calls, cat, lastCodeErr, stages, cgLog>>
    /\ UNCHANGED <<textual, kind, loop, code, att, exc, status, loadedIn>>
    /\ UNCHANGED keyVars
    /\ UNCHANGED <<reqKey, defaultKey, lastErr, audio, attErrs>>
    /\ UNCHANGED <<diskVars, downVars>>
    /\ UNCHANGED healthVars
    /\ UNCHANGED respVars
    /\ UNCHANGED unitVars
    /\ UNCHANGED textVars
    /\ UNCHANGED cwdVars

\* mkstemp, self.tts.generate_audio, read_bytes; then render_code is called
GvTts(r) ==
    /\ pc[r] = "gv_tts"
    /\ \/ /\ GvRaise(r, <<"mkstemp: OSError">>)
          /\ UNCHANGED <<audio, calls, stages>>
       \/ /\ audio' = [audio EXCEPT ![r] = TRUE]
          /\ calls' = [calls EXCEPT ![r].tts = Count(@)]
          /\ \/ /\ pc' = [pc EXCEPT ![r] = "rc_mkdtemp"]
                /\ stages' = [stages EXCEPT ![r] =
                       Logged(Logged(@, "narration"), "narration returned")]
                /\ UNCHANGED exc
             \/ /\ GvRaise(r, <<"gTTSError">>)
                /\ stages' = [stages EXCEPT ![r] = Logged(@, "narration")]
    /\ UNCHANGED <<textual, kind, loop, code, att, result, status, loadedIn>>
    /\ UNCHANGED keyVars
    /\ UNCHANGED <<reqKey, defaultKey, cat, lastCodeErr, lastErr, attErrs,
                   gmPrompts>>
    /\ UNCHANGED <<diskVars, downVars>>
    /\ UNCHANGED healthVars
    /\ UNCHANGED respVars
    /\ UNCHANGED unitVars
    /\ UNCHANGED textVars
    /\ cgLog' = [cgLog EXCEPT ![r] = <<>>]
    /\ UNCHANGED cwdVars

\* an attempt without the finally clause: the file stays where it is
AudioLeft(on_disk) == on_disk

\* finally: if temp_audio_path and temp_audio_path.exists(): os.unlink(...);
\* is the narration file on disk afterwards
AfterFinally(on_disk) == FALSE

\* render_code returned: `if result.success` ... and the finally clause
GvAfter(r) ==
    /\ pc[r] = "gv_after"
    /\ audio' = [audio EXCEPT ![r] = AfterFinally(@)]
    /\ IF result[r].success
       THEN /\ pc' = [pc EXCEPT ![r] = "ep_check"]
            /\ UNCHANGED <<result, att, lastErr, attErrs, fs, cleanups>>
       ELSE LET c == cleanup(fs, result[r].temp_dir)
                e == IF c.raised THEN Text(<<"cleanup raised">>) ELSE result[r].error IN
            /\ lastErr' = [lastErr EXCEPT ![r] = e]
            /\ attErrs' = [attErrs EXCEPT ![r] = Logged(@, e)]
            /\ fs' = c.fs
            /\ cleanups' = Counted(cleanups, result[r].temp_dir)
            /\ result' = [result EXCEPT ![r] = NoResult]
            /\ att' = [att EXCEPT ![r] = @ + 1]
            /\ pc' = [pc EXCEPT ![r] = "gv_loop"]
    /\ UNCHANGED <<textual, kind, loop, code, exc, status, loadedIn>>
    /\ UNCHANGED keyVars
    /\ UNCHANGED <<reqKey, defaultKey, calls, cat, lastCodeErr, gmPrompts>>
    /\ UNCHANGED registry
    /\ UNCHANGED downVars
    /\ UNCHANGED stageVars
    /\ UNCHANGED healthVars
    /\ UNCHANGED respVars
    /\ UNCHANGED unitVars
    /\ UNCHANGED textVars
    /\ UNCHANGED codeVars
    /\ UNCHANGED cwdVars

\* except Exception as e: last_error = str(e), and the finally clause
GvExcept(r) ==
    /\ pc[r] = "gv_except"
    /\ lastErr' = [lastErr EXCEPT ![r] = exc[r]]
    /\ attErrs' = [attErrs EXCEPT ![r] = Logged(@, exc[r])]
    /\ exc' = [exc EXCEPT ![r] = NoErr]
    /\ audio' = [audio EXCEPT ![r] = AfterFinally(@)]
    /\ att' = [att EXCEPT ![r] = @ + 1]
    /\ pc' = [pc EXCEPT ![r] = "gv_loop"]
    /\ UNCHANGED <<textual, kind, loop, code, result, status, loadedIn>>
    /\ UNCHANGED keyVars
    /\ UNCHANGED <<reqKey, defaultKey, calls, cat, lastCodeErr, gmPrompts>>
    /\ UNCHANGED <<diskVars, downVars>>
    /\ UNCHANGED stageVars
    /\ UNCHANGED healthVars
    /\ UNCHANGED respVars
    /\ UNCHANGED unitVars
    /\ UNCHANGED textVars
    /\ cgLog' = [cgLog EXCEPT ![r] = <<>>]
    /\ UNCHANGED cwdVars

(* ------------------------------ GET /health ---------------------------- *)
\* a GET /health request reaches the server while a handler occupies the
\* event loop (one that finds the loop free is answered at once and changes
\* nothing)
HealthArrive ==
    /\ health = "none"
    /\ loop # 0
    /\ health' = "waiting"
    /\ healthAt' = loop
    /\ UNCHANGED <<reqVars, diskVars, downVars, genVars, keyVars, stageVars, respVars>>
    /\ UNCHANGED unitVars
    /\ UNCHANGED textVars
    /\ UNCHANGED codeVars
    /\ UNCHANGED cwdVars

\* async def health_check(): the coroutine runs when the event loop is free
HealthAnswer ==
    /\ health = "waiting"
    /\ loop = 0
    /\ health' = "none"
    /\ healthAt' = 0
    /\ UNCHANGED <<reqVars, diskVars, downVars, genVars, keyVars, stageVars, respVars>>
    /\ UNCHANGED unitVars
    /\ UNCHANGED textVars
    /\ UNCHANGED codeVars
    /\ UNCHANGED cwdVars

(* ------------- functions applied to inputs of their own ---------------- *)
\* class names: name k is the k-th in alphabetical order
ClassNames == 1..MaxClasses

\* the Scene subclasses a code module can define, in definition order
Modules ==
    {m \in UNION {[1..n -> ClassNames] : n \in 0..MaxClasses} :
        \A i, j \in DOMAIN m : i # j => m[i] # m[j]}

RECURSIVE Sorted(_)
Sorted(S) ==
    IF S = {} THEN <<>>
    ELSE LET m == CHOOSE x \in S : \A y \in S : x <= y IN
         <<m>> \o Sorted(S \ {m})

\* the loop over inspect.getmembers(module), which lists the members sorted
\* by name
scene_classes(m) == Sorted({m[i] : i \in DOMAIN m})

\* render_service.find_scene_class; 0: ValueError
find_scene_class(m, name) ==
    LET sc == scene_classes(m) IN
    IF sc = <<>> THEN 0
    ELSE IF name # 0
         THEN IF \E i \in DOMAIN sc : sc[i] = name THEN name ELSE 0
         ELSE sc[Len(sc)]

\* manim_runner.find_scene_classes; <<>>: ValueError
find_scene_classes(m, name) ==
    LET sc == scene_classes(m) IN
    IF sc = <<>> THEN <<>>
    ELSE IF name # 0
         THEN IF \E i \in DOMAIN sc : sc[i] = name THEN <<name>> ELSE <<>>
         ELSE sc

\* file_name of scene i of n: f"{original_filename}_{i:02d}" when n > 1
FileName(i, n) ==
    IF n > 1 THEN [base |-> "output", index |-> i]
    ELSE [base |-> "output", index |-> -1]

UnitWS == <<1, 0>>
SegmentStems(ws) == {<<"output_00", ws[1], ws[2]>>, <<"output_01", ws[1], ws[2]>>}
OutFiles(ws) == {ExpectedStem(ws)} \cup SegmentStems(ws) \cup FallbackStems

serviceVars == <<reqVars, diskVars, downVars, genVars, keyVars, stageVars,
                 healthVars, respVars, codeVars, cwdVars>>

InitUnit ==
    /\ InitState
    /\ textual = TRUE
    /\ module \in Modules
    /\ scene_name \in 0..MaxClasses
    /\ outdir \in SUBSET OutFiles(UnitWS)
    /\ unit = "start"
    /\ picked = 0
    /\ todo = <<>>
    /\ rendered = <<>>
    /\ video = NoVideo
    /\ arg = [fn |-> "none"]
    /\ ret = <<>>

\* scene_class = find_scene_class(module, scene_name)
FindSceneClass ==
    /\ unit = "start"
    /\ picked' = find_scene_class(module, scene_name)
    /\ unit' = IF picked' = 0 THEN "find_raised" ELSE "found"
    /\ UNCHANGED <<module, scene_name, outdir, todo, rendered, video>>
    /\ UNCHANGED serviceVars
    /\ UNCHANGED textVars

\* manim_runner.main: scene_classes = find_scene_classes(module, scene_name)
RunnerFind ==
    /\ unit = "start"
    /\ todo' = find_scene_classes(module, scene_name)
    /\ unit' = IF todo' = <<>> THEN "runner_exit_1" ELSE "runner"
    /\ UNCHANGED <<module, scene_name, outdir, picked, rendered, video>>
    /\ UNCHANGED serviceVars
    /\ UNCHANGED textVars

\* one turn of `for i, (name, SceneClass) in enumerate(scene_classes)`
RunnerRender ==
    /\ unit = "runner"
    /\ Len(rendered) < Len(todo)
    /\ rendered' = Append(rendered,
           [name |-> todo[Len(rendered) + 1],
            file |-> FileName(Len(rendered), Len(todo))])
    /\ UNCHANGED <<module, scene_name, outdir, unit, picked, todo, video>>
    /\ UNCHANGED serviceVars
    /\ UNCHANGED textVars

\* the loop is over
RunnerExit ==
    /\ unit = "runner"
    /\ Len(rendered) = Len(todo)
    /\ unit' = "runner_exit_0"
    /\ UNCHANGED <<module, scene_name, outdir, picked, todo, rendered, video>>
    /\ UNCHANGED serviceVars
    /\ UNCHANGED textVars

\* render_code: `# Find the output video`
DiscoverOutput ==
    /\ unit = "start"
    /\ IF Discover(outdir, UnitWS) = {}
       THEN unit' = "no_video" /\ UNCHANGED video
       ELSE /\ \E stem \in Discover(outdir, UnitWS) :
                 video' = [stem |-> stem, parts |-> <<stem>>]
            /\ unit' = "discovered"
    /\ UNCHANGED <<module, scene_name, outdir, picked, todo, rendered>>
    /\ UNCHANGED serviceVars
    /\ UNCHANGED textVars

NextUnit ==
    \/ FindSceneClass
    \/ RunnerFind
    \/ RunnerRender
    \/ RunnerExit
    \/ DiscoverOutput

(* ------------------------- knowledge retrieval ------------------------- *)
(* A text is a tuple of characters.                                        *)
UpperCase == <<"A", "B", "C", "D", "E", "F", "G", "H", "I", "J", "K", "L", "M", "N", "O", "P", "Q", "R", "S", "T", "U", "V", "W", "X", "Y", "Z">>
LowerCase == <<"a", "b", "c", "d", "e", "f", "g", "h", "i", "j", "k", "l", "m", "n", "o", "p", "q", "r", "s", "t", "u", "v", "w", "x", "y", "z">>

\* str.lower()
lower(s) ==
    [i \in DOMAIN s |->
        IF \E k \in DOMAIN UpperCase : UpperCase[k] = s[i]
        THEN LowerCase[CHOOSE k \in DOMAIN UpperCase : UpperCase[k] = s[i]]
        ELSE s[i]]

\* the keys of KNOWLEDGE_SECTIONS, in definition order; the body of a section
\* is written as its key
KNOWLEDGE_SECTIONS ==
    <<"geometry_basic", "geometry_lines", "geometry_polygons", "text_latex",
      "coordinate_systems", "3d_objects", "animations_creation", "animations_fading",
      "animations_transform", "animations_indication", "animations_composition", "scene_methods",
      "mobject_methods", "constants_colors", "vgroup", "rate_functions",
      "multi_scene_pattern">>

\* keyword -> sections, in the order of the table
KEYWORD_MAPPINGS ==
    <<
       [keyword |-> <<"c", "i", "r", "c", "l", "e">>,
        sections |-> <<"geometry_basic", "mobject_methods">>],
       [keyword |-> <<"d", "o", "t">>,
        sections |-> <<"geometry_basic">>],
       [keyword |-> <<"a", "r", "c">>,
        sections |-> <<"geometry_basic">>],
       [keyword |-> <<"e", "l", "l", "i", "p", "s", "e">>,
        sections |-> <<"geometry_basic">>],
       [keyword |-> <<"l", "i", "n", "e">>,
        sections |-> <<"geometry_lines">>],
       [keyword |-> <<"a", "r", "r", "o", "w">>,
        sections |-> <<"geometry_lines">>],
       [keyword |-> <<"v", "e", "c", "t", "o", "r">>,
        sections |-> <<"geometry_lines">>],
       [keyword |-> <<"r", "e", "c", "t", "a", "n", "g", "l", "e">>,
        sections |-> <<"geometry_polygons">>],
       [keyword |-> <<"s", "q", "u", "a", "r", "e">>,
        sections |-> <<"geometry_polygons">>],
       [keyword |-> <<"p", "o", "l", "y", "g", "o", "n">>,
        sections |-> <<"geometry_polygons">>],
       [keyword |-> <<"t", "r", "i", "a", "n", "g", "l", "e">>,
        sections |-> <<"geometry_polygons">>],
       [keyword |-> <<"s", "t", "a", "r">>,
        sections |-> <<"geometry_polygons">>],
       [keyword |-> <<"s", "e", "c", "t", "o", "r">>,
        sections |-> <<"geometry_polygons">>],
       [keyword |-> <<"a", "n", "n", "u", "l", "u", "s">>,
        sections |-> <<"geometry_polygons">>],
       [keyword |-> <<"s", "h", "a", "p", "e">>,
        sections |-> <<"geometry_basic", "geometry_polygons">>],
       [keyword |-> <<"t", "e", "x", "t">>,
        sections |-> <<"text_latex">>],
       [keyword |-> <<"t", "e", "x">>,
        sections |-> <<"text_latex">>],
       [keyword |-> <<"l", "a", "t", "e", "x">>,
        sections |-> <<"text_latex">>],
       [keyword |-> <<"m", "a", "t", "h">>,
        sections |-> <<"text_latex", "coordinate_systems">>],
       [keyword |-> <<"e", "q", "u", "a", "t", "i", "o", "n">>,
        sections |-> <<"text_latex">>],
       [keyword |-> <<"f", "o", "r", "m", "u", "l", "a">>,
        sections |-> <<"text_latex">>],
       [keyword |-> <<"l", "a", "b", "e", "l">>,
        sections |-> <<"text_latex">>],
       [keyword |-> <<"g", "r", "a", "p", "h">>,
        sections |-> <<"coordinate_systems">>],
       [keyword |-> <<"p", "l", "o", "t">>,
        sections |-> <<"coordinate_systems">>],
       [keyword |-> <<"f", "u", "n", "c", "t", "i", "o", "n">>,
        sections |-> <<"coordinate_systems">>],
       [keyword |-> <<"a", "x", "e", "s">>,
        sections |-> <<"coordinate_systems">>],
       [keyword |-> <<"a", "x", "i", "s">>,
        sections |-> <<"coordinate_systems">>],
       [keyword |-> <<"c", "o", "o", "r", "d", "i", "n", "a", "t", "e">>,
        sections |-> <<"coordinate_systems">>],
       [keyword |-> <<"p", "l", "a", "n", "e">>,
        sections |-> <<"coordinate_systems">>],
       [keyword |-> <<"n", "u", "m", "b", "e", "r", " ", "l", "i", "n", "e">>,
        sections |-> <<"coordinate_systems">>],
       [keyword |-> <<"x", "-", "a", "x", "i", "s">>,
        sections |-> <<"coordinate_systems">>],
       [keyword |-> <<"y", "-", "a", "x", "i", "s">>,
        sections |-> <<"coordinate_systems">>],
       [keyword |-> <<"s", "i", "n", "e">>,
        sections |-> <<"coordinate_systems">>],
       [keyword |-> <<"c", "o", "s", "i", "n", "e">>,
        sections |-> <<"coordinate_systems">>],
       [keyword |-> <<"p", "a", "r", "a", "b", "o", "l", "a">>,
        sections |-> <<"coordinate_systems">>],
       [keyword |-> <<"3", "d">>,
        sections |-> <<"3d_objects", "scene_methods">>],
       [keyword |-> <<"s", "p", "h", "e", "r", "e">>,
        sections |-> <<"3d_objects">>],
       [keyword |-> <<"c", "y", "l", "i", "n", "d", "e", "r">>,
        sections |-> <<"3d_objects">>],
       [keyword |-> <<"c", "o", "n", "e">>,
        sections |-> <<"3d_objects">>],
       [keyword |-> <<"t", "o", "r", "u", "s">>,
        sections |-> <<"3d_objects">>],
       [keyword |-> <<"s", "u", "r", "f", "a", "c", "e">>,
        sections |-> <<"3d_objects">>],
       [keyword |-> <<"c", "a", "m", "e", "r", "a">>,
        sections |-> <<"scene_methods">>],
       [keyword |-> <<"r", "o", "t", "a", "t", "e", " ", "c", "a", "m", "e", "r", "a">>,
        sections |-> <<"scene_methods">>],
       [keyword |-> <<"a", "n", "i", "m", "a", "t", "e">>,
        sections |-> <<"animations_creation", "animations_transform">>],
       [keyword |-> <<"a", "n", "i", "m", "a", "t", "i", "o", "n">>,
        sections |-> <<"animations_creation", "animations_transform", "animations_composition">>],
       [keyword |-> <<"c", "r", "e", "a", "t", "e">>,
        sections |-> <<"animations_creation">>],
       [keyword |-> <<"w", "r", "i", "t", "e">>,
        sections |-> <<"animations_creation">>],
       [keyword |-> <<"d", "r", "a", "w">>,
        sections |-> <<"animations_creation">>],
       [keyword |-> <<"f", "a", "d", "e">>,
        sections |-> <<"animations_fading">>],
       [keyword |-> <<"a", "p", "p", "e", "a", "r">>,
        sections |-> <<"animations_fading">>],
       [keyword |-> <<"d", "i", "s", "a", "p", "p", "e", "a", "r">>,
        sections |-> <<"animations_fading">>],
       [keyword |-> <<"t", "r", "a", "n", "s", "f", "o", "r", "m">>,
        sections |-> <<"animations_transform">>],
       [keyword |-> <<"m", "o", "r", "p", "h">>,
        sections |-> <<"animations_transform">>],
       [keyword |-> <<"m", "o", "v", "e">>,
        sections |-> <<"animations_transform", "mobject_methods">>],
       [keyword |-> <<"i", "n", "d", "i", "c", "a", "t", "e">>,
        sections |-> <<"animations_indication">>],
       [keyword |-> <<"f", "l", "a", "s", "h">>,
        sections |-> <<"animations_indication">>],
       [keyword |-> <<"h", "i", "g", "h", "l", "i", "g", "h", "t">>,
        sections |-> <<"animations_indication">>],
       [keyword |-> <<"w", "i", "g", "g", "l", "e">>,
        sections |-> <<"animations_indication">>],
       [keyword |-> <<"g", "r", "o", "u", "p">>,
        sections |-> <<"animations_composition", "vgroup">>],
       [keyword |-> <<"s", "e", "q", "u", "e", "n", "c", "e">>,
        sections |-> <<"animations_composition">>],
       [keyword |-> <<"t", "o", "g", "e", "t", "h", "e", "r">>,
        sections |-> <<"animations_composition">>],
       [keyword |-> <<"c", "o", "l", "o", "r">>,
        sections |-> <<"constants_colors", "mobject_methods">>],
       [keyword |-> <<"p", "o", "s", "i", "t", "i", "o", "n">>,
        sections |-> <<"mobject_methods", "constants_colors">>],
       [keyword |-> <<"s", "c", "a", "l", "e">>,
        sections |-> <<"mobject_methods">>],
       [keyword |-> <<"r", "o", "t", "a", "t", "e">>,
        sections |-> <<"mobject_methods", "animations_transform">>],
       [keyword |-> <<"v", "g", "r", "o", "u", "p">>,
        sections |-> <<"vgroup">>],
       [keyword |-> <<"a", "r", "r", "a", "n", "g", "e">>,
        sections |-> <<"vgroup">>],
       [keyword |-> <<"e", "a", "s", "i", "n", "g">>,
        sections |-> <<"rate_functions">>],
       [keyword |-> <<"s", "m", "o", "o", "t", "h">>,
        sections |-> <<"rate_functions">>],
       [keyword |-> <<"e", "x", "p", "l", "a", "i", "n">>,
        sections |-> <<"multi_scene_pattern", "text_latex">>],
       [keyword |-> <<"t", "h", "e", "o", "r", "e", "m">>,
        sections |-> <<"multi_scene_pattern", "text_latex", "geometry_basic">>],
       [keyword |-> <<"p", "r", "o", "o", "f">>,
        sections |-> <<"multi_scene_pattern", "text_latex">>],
       [keyword |-> <<"s", "t", "e", "p", " ", "b", "y", " ", "s", "t", "e", "p">>,
        sections |-> <<"multi_scene_pattern">>],
       [keyword |-> <<"t", "u", "t", "o", "r", "i", "a", "l">>,
        sections |-> <<"multi_scene_pattern">>],
       [keyword |-> <<"d", "e", "m", "o", "n", "s", "t", "r", "a", "t", "i", "o", "n">>,
        sections |-> <<"multi_scene_pattern">>],
       [keyword |-> <<"f", "o", "u", "r", "i", "e", "r">>,
        sections |-> <<"coordinate_systems", "multi_scene_pattern">>],
       [keyword |-> <<"c", "a", "l", "c", "u", "l", "u", "s">>,
        sections |-> <<"coordinate_systems", "text_latex">>],
       [keyword |-> <<"d", "e", "r", "i", "v", "a", "t", "i", "v", "e">>,
        sections |-> <<"coordinate_systems", "text_latex">>],
       [keyword |-> <<"i", "n", "t", "e", "g", "r", "a", "l">>,
        sections |-> <<"coordinate_systems", "text_latex">>],
       [keyword |-> <<"p", "y", "t", "h", "a", "g", "o", "r", "e", "a", "n">>,
        sections |-> <<"geometry_polygons", "text_latex", "multi_scene_pattern">>],
       [keyword |-> <<"p", "y", "t", "h", "a", "g", "o", "r", "a", "s">>,
        sections |-> <<"geometry_polygons", "text_latex", "multi_scene_pattern">>]
    >>

\* keywords found in the lower-cased prompt, in the order of the table
Matched(prompt_lower) ==
    SelectSeq(KEYWORD_MAPPINGS, LAMBDA m : InLine(m.keyword, prompt_lower))

\* the sections of the keywords found, one entry per (keyword, section)
RECURSIVE Hits(_)
Hits(ms) == IF ms = <<>> THEN <<>> ELSE Head(ms).sections \o Hits(Tail(ms))

\* section_scores[section] = section_scores.get(section, 0) + by; the dict
\* is a tuple of entries in insertion order, the scores are counted in halves
Bump(scores, section, by) ==
    IF \E i \in DOMAIN scores : scores[i].section = section
    THEN [i \in DOMAIN scores |->
            IF scores[i].section = section
            THEN [section |-> section, score |-> scores[i].score + by]
            ELSE scores[i]]
    ELSE Append(scores, [section |-> section, score |-> by])

RECURSIVE BumpAll(_, _, _)
BumpAll(scores, sections, by) ==
    IF sections = <<>> THEN scores
    ELSE BumpAll(Bump(scores, Head(sections), by), Tail(sections), by)


\* + 1 for every keyword found, + 0.5 for the baseline sections
section_scores(prompt) ==
    BumpAll(BumpAll(<<>>, Hits(Matched(lower(prompt))), 2), <<"scene_methods", "constants_colors", "mobject_methods">>, 1)

\* sorted(section_scores.items(), key = lambda x: -x[1]); the sort is stable
RECURSIVE sorted_sections(_)
sorted_sections(scores) ==
    IF scores = <<>> THEN <<>>
    ELSE LET i == CHOOSE k \in DOMAIN scores :
                     /\ \A j \in DOMAIN scores : scores[j].score <= scores[k].score
                     /\ \A j \in 1..(k - 1) : scores[j].score < scores[k].score
         IN  <<scores[i]>> \o
             sorted_sections(SubSeq(scores, 1, i - 1) \o SubSeq(scores, i + 1, Len(scores)))

\* [s[0] for s in sorted_sections[:max_sections]], max_sections >= 0
top_sections(prompt, max_sections) ==
    LET s == sorted_sections(section_scores(prompt))
        n == IF max_sections < Len(s) THEN max_sections ELSE Len(s)
    IN  [i \in 1..n |-> s[i].section]

DefaultSections ==
    <<"geometry_basic", "text_latex", "animations_creation", "animations_transform",
      "scene_methods", "multi_scene_pattern">>

\* manim_knowledge_base.retrieve_relevant_knowledge; the string returned is
\* the bodies of these sections joined by newlines
retrieve_relevant_knowledge(prompt, max_sections) ==
    LET top == top_sections(prompt, max_sections)
        chosen == IF top = <<>> THEN DefaultSections ELSE top
    IN  SelectSeq(chosen, LAMBDA s : \E i \in DOMAIN KNOWLEDGE_SECTIONS :
                                        KNOWLEDGE_SECTIONS[i] = s)

\* the queries and the values of max_sections the retrieval is applied to
RetrieveArgs ==
    {[fn |-> "retrieve_relevant_knowledge", prompt |-> p, max_sections |-> n] :
        p \in {
            <<"h", "e", "l", "l", "o">>,
            <<>>,
            <<"C", "i", "r", "c", "l", "e">>,
            <<"r", "o", "t", "a", "t", "e", " ", "c", "a", "m", "e", "r", "a">>,
            <<"3", "D", " ", "s", "p", "h", "e", "r", "e">>,
            <<"t", "e", "x", "t", "u", "r", "e">>,
            <<"e", "x", "p", "l", "a", "i", "n", " ", "F", "o", "u", "r", "i", "e", "r">>,
            <<"a", " ", "s", "t", "a", "r">>},
        n \in {0, 1, 2, 3, 6, 8}}

(* ------------------------ LLMService._extract_code --------------------- *)
\* whitespace as str.strip() and the regex class \s read it
IsSpace(c) == c \in {" ", "\n", "\t"}

LeastOf(S) == CHOOSE i \in S : \A j \in S : i <= j

\* s[i:].startswith(t), positions counted from 1
StartsWith(s, i, t) ==
    /\ i >= 1
    /\ i + Len(t) - 1 <= Len(s)
    /\ SubSeq(s, i, i + Len(t) - 1) = t

\* the same under re.IGNORECASE
StartsWithI(s, i, t) ==
    /\ i >= 1
    /\ i + Len(t) - 1 <= Len(s)
    /\ lower(SubSeq(s, i, i + Len(t) - 1)) = lower(t)

\* s.find(t), from position `from`; 0 when t does not occur
Find(s, t, from) ==
    LET I == {i \in from..(Len(s) - Len(t) + 1) : StartsWith(s, i, t)} IN
    IF I = {} THEN 0 ELSE LeastOf(I)

\* the position after the whitespace that starts at i (regex \s*)
SkipSpace(s, i) ==
    LeastOf({j \in i..(Len(s) + 1) : j = Len(s) + 1 \/ ~IsSpace(s[j])})

\* the backquote character, which a string of this language cannot hold
Tick == "backquote"

T_Fence == <<Tick, Tick, Tick>>
T_FencePython == <<Tick, Tick, Tick, "p", "y", "t", "h", "o", "n">>

\* \[\s*name\s*\] matched at position i: the position after the tag, or 0
TagEnd(s, i, name) ==
    IF i >= 1 /\ i <= Len(s) /\ s[i] = "["
    THEN LET j == SkipSpace(s, i + 1) IN
         IF StartsWithI(s, j, name)
         THEN LET k == SkipSpace(s, j + Len(name)) IN
              IF k <= Len(s) /\ s[k] = "]" THEN k + 1 ELSE 0
         ELSE 0
    ELSE 0

NoMatch == [found |-> FALSE, group |-> <<>>]

\* re.search(r"\[\s*CODE\s*\](.*?)\[\s*/CODE\s*\]", response, DOTALL | IGNORECASE)
TagSearch(s) ==
    LET closes(from) == {c \in from..Len(s) : TagEnd(s, c, <<"/", "C", "O", "D", "E">>) # 0}
        opens == {i \in 1..Len(s) :
                     TagEnd(s, i, <<"C", "O", "D", "E">>) # 0 /\ closes(TagEnd(s, i, <<"C", "O", "D", "E">>)) # {}}
    IN  IF opens = {} THEN NoMatch
        ELSE LET start == TagEnd(s, LeastOf(opens), <<"C", "O", "D", "E">>) IN
             [found |-> TRUE, group |-> SubSeq(s, start, LeastOf(closes(start)) - 1)]

\* re.search(r"```python(.*?)```", response, DOTALL | IGNORECASE)
FenceSearch(s) ==
    LET closes(from) == {c \in from..Len(s) : StartsWith(s, c, T_Fence)}
        opens == {i \in 1..Len(s) :
                     StartsWithI(s, i, T_FencePython)
                        /\ closes(i + Len(T_FencePython)) # {}}
    IN  IF opens = {} THEN NoMatch
        ELSE LET start == LeastOf(opens) + Len(T_FencePython) IN
             [found |-> TRUE, group |-> SubSeq(s, start, LeastOf(closes(start)) - 1)]

\* start_patterns = ["from manimlib import", "import manimlib", "class "]
start_patterns == {N_FromManimlibImport, L_ImportManimlib, <<"c", "l", "a", "s", "s", " ">>}

\* the heuristic scan: from the earliest start pattern on, cut at the first
\* fence; the whole response when no pattern occurs
Heuristic(s) ==
    LET idx == {Find(s, p, 1) : p \in start_patterns} \ {0} IN
    IF idx = {} THEN [found |-> FALSE, group |-> s]
    ELSE LET from == SubSeq(s, LeastOf(idx), Len(s))
             f == Find(from, T_Fence, 1) IN
         [found |-> TRUE,
          group |-> IF f = 0 THEN from ELSE SubSeq(from, 1, f - 1)]

\* str.strip()
strip(s) ==
    LET keep == {i \in DOMAIN s : ~IsSpace(s[i])} IN
    IF keep = {} THEN <<>>
    ELSE SubSeq(s, LeastOf(keep), CHOOSE i \in keep : \A j \in keep : j <= i)

\* text.split("\n")
RECURSIVE SplitLines(_)
SplitLines(s) ==
    LET n == Find(s, <<"\n">>, 1) IN
    IF n = 0 THEN <<s>>
    ELSE <<SubSeq(s, 1, n - 1)>> \o SplitLines(SubSeq(s, n + 1, Len(s)))

\* "\n".join(lines)
RECURSIVE JoinLines(_)
JoinLines(lines) ==
    IF lines = <<>> THEN <<>>
    ELSE IF Len(lines) = 1 THEN lines[1]
    ELSE lines[1] \o <<"\n">> \o JoinLines(Tail(lines))

\* the leading blanks and tabs of a line
Leading(line) ==
    SubSeq(line, 1,
           LeastOf({j \in 1..(Len(line) + 1) :
                       j = Len(line) + 1 \/ line[j] \notin {" ", "\t"}}) - 1)

\* textwrap.dedent: lines of blanks and tabs become empty, the longest
\* common leading whitespace of the other lines is removed from every line
dedent(text) ==
    LET raw == SplitLines(text)
        lines == [i \in DOMAIN raw |-> IF Leading(raw[i]) = raw[i] THEN <<>> ELSE raw[i]]
        full == {i \in DOMAIN lines : lines[i] # <<>>}
        common(n) == \A i, j \in full :
                        /\ Len(Leading(lines[i])) >= n
                        /\ SubSeq(lines[i], 1, n) = SubSeq(lines[j], 1, n)
        m == IF full = {} THEN 0
             ELSE CHOOSE n \in 0..Len(text) :
                     common(n) /\ \A k \in (n + 1)..Len(text) : ~common(k)
    IN  JoinLines([i \in DOMAIN lines |->
                      IF lines[i] = <<>> THEN <<>>
                      ELSE SubSeq(lines[i], m + 1, Len(lines[i]))])

\* the text _extract_code goes on with: the tag content, else the fenced
\* block, else the heuristic scan; `if not code` also passes on empty content
ExtractedSource(response) ==
    LET tag == TagSearch(response)
        fence == FenceSearch(response) IN
    IF tag.found /\ tag.group # <<>> THEN tag.group
    ELSE IF fence.found /\ fence.group # <<>> THEN fence.group
    ELSE Heuristic(response).group

\* LLMService._extract_code
_extract_code(response) ==
    LET source == ExtractedSource(response) IN
    IF source # <<>> THEN dedent(strip(source)) ELSE <<>>





\* k blanks
Blanks(k) == [i \in 1..k |-> " "]

\* [CODE], the lines of the snippet indented by k blanks, [/CODE]
Tagged(snippet, k) ==
    <<"[", "C", "O", "D", "E", "]">> \o <<"\n">>
        \o JoinLines([i \in DOMAIN snippet |-> Blanks(k) \o snippet[i]])
        \o <<"\n">> \o <<"[", "/", "C", "O", "D", "E", "]">>

\* the model responses the extraction is applied to: fixed responses, and
\* snippets wrapped in code tags at each common indentation
ExtractArgs ==
    {[fn |-> "_extract_code", response |-> s, snippet |-> <<>>, k |-> 0] :
        s \in {
            \* '[CODE]\nx = 1\n[/CODE]'
            <<"[", "C", "O", "D", "E", "]", "\n", "x", " ", "=", " ", "1", "\n", "[", "/", "C", "O", "D", "E", "]">>,
            \* 'ok [ code ]x = 1[ /code ] bye'
            <<"o", "k", " ", "[", " ", "c", "o", "d", "e", " ", "]", "x", " ", "=", " ", "1", "[", " ", "/", "c", "o", "d", "e", " ", "]", " ", "b", "y", "e">>,
            \* '[CODE]x = 1[/CODE]```python\ny = 2\n```'
            <<"[", "C", "O", "D", "E", "]", "x", " ", "=", " ", "1", "[", "/", "C", "O", "D", "E", "]", Tick, Tick, Tick, "p", "y", "t", "h", "o", "n", "\n", "y", " ", "=", " ", "2", "\n", Tick, Tick, Tick>>,
            \* '```python\ny = 2\n```[CODE]x = 1[/CODE]'
            <<Tick, Tick, Tick, "p", "y", "t", "h", "o", "n", "\n", "y", " ", "=", " ", "2", "\n", Tick, Tick, Tick, "[", "C", "O", "D", "E", "]", "x", " ", "=", " ", "1", "[", "/", "C", "O", "D", "E", "]">>,
            \* 'Sure!\n```Python\n  y = 2\n```'
            <<"S", "u", "r", "e", "!", "\n", Tick, Tick, Tick, "P", "y", "t", "h", "o", "n", "\n", " ", " ", "y", " ", "=", " ", "2", "\n", Tick, Tick, Tick>>,
            \* 'class A\n```python\ny = 2\n```'
            <<"c", "l", "a", "s", "s", " ", "A", "\n", Tick, Tick, Tick, "p", "y", "t", "h", "o", "n", "\n", "y", " ", "=", " ", "2", "\n", Tick, Tick, Tick>>,
            \* 'so: import manimlib\nclass A'
            <<"s", "o", ":", " ", "i", "m", "p", "o", "r", "t", " ", "m", "a", "n", "i", "m", "l", "i", "b", "\n", "c", "l", "a", "s", "s", " ", "A">>,
            \* 'so:\nclass A\n```\nbye'
            <<"s", "o", ":", "\n", "c", "l", "a", "s", "s", " ", "A", "\n", Tick, Tick, Tick, "\n", "b", "y", "e">>,
            \* ' x = 1\n'
            <<" ", "x", " ", "=", " ", "1", "\n">>,
            \* ''
            <<>>,
            \* '[CODE][/CODE]```python\ny = 2\n```'
            <<"[", "C", "O", "D", "E", "]", "[", "/", "C", "O", "D", "E", "]", Tick, Tick, Tick, "p", "y", "t", "h", "o", "n", "\n", "y", " ", "=", " ", "2", "\n", Tick, Tick, Tick>>,
            \* '[CODE] [/CODE]```python\ny = 2\n```'
            <<"[", "C", "O", "D", "E", "]", " ", "[", "/", "C", "O", "D", "E", "]", Tick, Tick, Tick, "p", "y", "t", "h", "o", "n", "\n", "y", " ", "=", " ", "2", "\n", Tick, Tick, Tick>>,
            \* '[CODE]x = 1```python\ny = 2\n```'
            <<"[", "C", "O", "D", "E", "]", "x", " ", "=", " ", "1", Tick, Tick, Tick, "p", "y", "t", "h", "o", "n", "\n", "y", " ", "=", " ", "2", "\n", Tick, Tick, Tick>>,
            \* '```python```class A'
            <<Tick, Tick, Tick, "p", "y", "t", "h", "o", "n", Tick, Tick, Tick, "c", "l", "a", "s", "s", " ", "A">>,
            \* '[CODE]x[/CODE][CODE]y[/CODE]'
            <<"[", "C", "O", "D", "E", "]", "x", "[", "/", "C", "O", "D", "E", "]", "[", "C", "O", "D", "E", "]", "y", "[", "/", "C", "O", "D", "E", "]">>,
            \* 'x = 1\n  \ny = 2'
            <<"x", " ", "=", " ", "1", "\n", " ", " ", "\n", "y", " ", "=", " ", "2">>}}
    \cup {[fn |-> "_extract_code", response |-> Tagged(s, k), snippet |-> s, k |-> k] :
        s \in {
            <<<<"a", " ", "=", " ", "1">>>>,
            <<<<"a", " ", "=", " ", "1">>, <<"b", " ", "=", " ", "2">>>>,
            <<<<"i", "f", " ", "a", ":">>, <<" ", " ", "b", " ", "=", " ", "2">>, <<"c", " ", "=", " ", "3">>>>},
        k \in {0, 2, 4}}

(* --------------------- LLMService._post_process_code ------------------- *)
\* the characters U+2013 and U+2014
EnDash == "endash"
EmDash == "emdash"


\* the regex class \w
IsWord(c) ==
    \/ \E i \in DOMAIN LowerCase : LowerCase[i] = c \/ UpperCase[i] = c
    \/ \E i \in DOMAIN <<"0", "1", "2", "3", "4", "5", "6", "7", "8", "9">> : <<"0", "1", "2", "3", "4", "5", "6", "7", "8", "9">>[i] = c
    \/ c = "_"

\* the position after the run of word characters that starts at i (\w*)
SkipWord(s, i) ==
    LeastOf({j \in i..(Len(s) + 1) : j = Len(s) + 1 \/ ~IsWord(s[j])})

\* the literal t stands at i: the position after it, or 0
After(s, i, t) == IF i >= 1 /\ StartsWith(s, i, t) THEN i + Len(t) ELSE 0

\* \bword\b matches at i
WordAt(s, i, word) ==
    /\ StartsWith(s, i, word)
    /\ i = 1 \/ ~IsWord(s[i - 1])
    /\ i + Len(word) > Len(s) \/ ~IsWord(s[i + Len(word)])

\* re.sub(rf'\b{word}\b', right, s), from position i on
RECURSIVE SubWordFrom(_, _, _, _)
SubWordFrom(s, word, right, i) ==
    LET at == {j \in i..Len(s) : WordAt(s, j, word)} IN
    IF at = {} THEN SubSeq(s, i, Len(s))
    ELSE SubSeq(s, i, LeastOf(at) - 1) \o right
            \o SubWordFrom(s, word, right, LeastOf(at) + Len(word))

SubWord(s, word, right) == SubWordFrom(s, word, right, 1)

\* color_fixes, in the order of the dict
color_fixes ==
    <<
       [wrong |-> <<"L", "I", "G", "H", "T", "_", "G", "R", "A", "Y">>,
        correct |-> <<"G", "R", "E", "Y", "_", "B">>],
       [wrong |-> <<"L", "I", "G", "H", "T", "_", "G", "R", "E", "Y">>,
        correct |-> <<"G", "R", "E", "Y", "_", "B">>],
       [wrong |-> <<"D", "A", "R", "K", "_", "G", "R", "A", "Y">>,
        correct |-> <<"G", "R", "E", "Y", "_", "D">>],
       [wrong |-> <<"D", "A", "R", "K", "_", "G", "R", "E", "Y">>,
        correct |-> <<"G", "R", "E", "Y", "_", "D">>],
       [wrong |-> <<"L", "I", "G", "H", "T", "_", "B", "R", "O", "W", "N">>,
        correct |-> <<"G", "O", "L", "D", "_", "E">>],
       [wrong |-> <<"D", "A", "R", "K", "_", "B", "R", "O", "W", "N">>,
        correct |-> <<"G", "O", "L", "D", "_", "E">>],
       [wrong |-> <<"L", "I", "G", "H", "T", "_", "P", "I", "N", "K">>,
        correct |-> <<"P", "I", "N", "K">>],
       [wrong |-> <<"D", "A", "R", "K", "_", "P", "I", "N", "K">>,
        correct |-> <<"M", "A", "R", "O", "O", "N", "_", "C">>],
       [wrong |-> <<"L", "I", "G", "H", "T", "_", "B", "L", "U", "E">>,
        correct |-> <<"B", "L", "U", "E", "_", "B">>],
       [wrong |-> <<"D", "A", "R", "K", "_", "B", "L", "U", "E">>,
        correct |-> <<"B", "L", "U", "E", "_", "E">>],
       [wrong |-> <<"L", "I", "G", "H", "T", "_", "G", "R", "E", "E", "N">>,
        correct |-> <<"G", "R", "E", "E", "N", "_", "B">>],
       [wrong |-> <<"D", "A", "R", "K", "_", "G", "R", "E", "E", "N">>,
        correct |-> <<"G", "R", "E", "E", "N", "_", "E">>],
       [wrong |-> <<"L", "I", "G", "H", "T", "_", "R", "E", "D">>,
        correct |-> <<"R", "E", "D", "_", "B">>],
       [wrong |-> <<"D", "A", "R", "K", "_", "R", "E", "D">>,
        correct |-> <<"R", "E", "D", "_", "E">>],
       [wrong |-> <<"L", "I", "G", "H", "T", "_", "Y", "E", "L", "L", "O", "W">>,
        correct |-> <<"Y", "E", "L", "L", "O", "W", "_", "B">>],
       [wrong |-> <<"D", "A", "R", "K", "_", "Y", "E", "L", "L", "O", "W">>,
        correct |-> <<"Y", "E", "L", "L", "O", "W", "_", "E">>],
       [wrong |-> <<"L", "I", "G", "H", "T", "_", "P", "U", "R", "P", "L", "E">>,
        correct |-> <<"P", "U", "R", "P", "L", "E", "_", "B">>],
       [wrong |-> <<"D", "A", "R", "K", "_", "P", "U", "R", "P", "L", "E">>,
        correct |-> <<"P", "U", "R", "P", "L", "E", "_", "E">>],
       [wrong |-> <<"L", "I", "G", "H", "T", "_", "O", "R", "A", "N", "G", "E">>,
        correct |-> <<"O", "R", "A", "N", "G", "E">>],
       [wrong |-> <<"D", "A", "R", "K", "_", "O", "R", "A", "N", "G", "E">>,
        correct |-> <<"G", "O", "L", "D", "_", "E">>],
       [wrong |-> <<"C", "Y", "A", "N">>,
        correct |-> <<"T", "E", "A", "L">>],
       [wrong |-> <<"M", "A", "G", "E", "N", "T", "A">>,
        correct |-> <<"P", "I", "N", "K">>]
    >>

\* for wrong_color, correct_color in color_fixes.items(): code = re.sub(...)
RECURSIVE FixColors(_, _)
FixColors(s, fixes) ==
    IF fixes = <<>> THEN s
    ELSE FixColors(SubWord(s, Head(fixes).wrong, Head(fixes).correct), Tail(fixes))

T_AlwaysRedraw == <<"a", "l", "w", "a", "y", "s", "_", "r", "e", "d", "r", "a", "w">>
T_Text == <<"\\", "t", "e", "x", "t", "{">>
T_SceneColon == <<"(", "S", "c", "e", "n", "e", ")", ":">>

\* (\w+)\s*=\s*always_redraw\s*\(\s*(\w+)\s*\) matched at i: the two groups
\* and the position after the match, or NoRedraw
NoRedraw == [end |-> 0, var_name |-> <<>>, func_name |-> <<>>]
RedrawAt(s, i) ==
    LET w == SkipWord(s, i)
        eq == SkipSpace(s, w)
        ar == SkipSpace(s, After(s, eq, <<"=">>))
        op == SkipSpace(s, After(s, ar, T_AlwaysRedraw))
        f == SkipSpace(s, After(s, op, <<"(">>))
        g == SkipWord(s, f)
        cl == SkipSpace(s, g)
    IN  IF /\ i <= Len(s) /\ w > i
           /\ After(s, eq, <<"=">>) # 0
           /\ After(s, ar, T_AlwaysRedraw) # 0
           /\ After(s, op, <<"(">>) # 0
           /\ g > f
           /\ After(s, cl, <<")">>) # 0
        THEN [end |-> cl + 1, var_name |-> SubSeq(s, i, w - 1),
              func_name |-> SubSeq(s, f, g - 1)]
        ELSE NoRedraw

\* fix_always_redraw(match)
fix_always_redraw(m) ==
    m.var_name \o <<" ", "=", " ">> \o m.func_name \o <<"(", ")", "\n">> \o Blanks(8)
        \o m.var_name \o <<".", "a", "d", "d", "_", "u", "p", "d", "a", "t", "e", "r", "(", "l", "a", "m", "b", "d", "a", " ", "m", ":", " ", "m", ".", "b", "e", "c", "o", "m", "e", "(">> \o m.func_name \o <<"(", ")", ")", ")">>

\* always_redraw_pattern.sub(fix_always_redraw, code), from position i on
RECURSIVE SubRedrawFrom(_, _)
SubRedrawFrom(s, i) ==
    LET at == {j \in i..Len(s) : RedrawAt(s, j) # NoRedraw} IN
    IF at = {} THEN SubSeq(s, i, Len(s))
    ELSE SubSeq(s, i, LeastOf(at) - 1) \o fix_always_redraw(RedrawAt(s, LeastOf(at)))
            \o SubRedrawFrom(s, RedrawAt(s, LeastOf(at)).end)

\* \\text\{([^}]+)\} matched at i: the position of the closing brace, or 0
TextAt(s, i) ==
    LET from == After(s, i, T_Text)
        close == IF from = 0 THEN 0 ELSE Find(s, <<"}">>, from) IN
    IF from # 0 /\ close > from THEN close ELSE 0

\* re.sub(r'\\text\{([^}]+)\}', r'\\mathrm{\1}', code), from position i on
RECURSIVE SubTextFrom(_, _)
SubTextFrom(s, i) ==
    LET at == {j \in i..Len(s) : TextAt(s, j) # 0} IN
    IF at = {} THEN SubSeq(s, i, Len(s))
    ELSE SubSeq(s, i, LeastOf(at) - 1) \o <<"\\", "m", "a", "t", "h", "r", "m", "{">>
            \o SubSeq(s, LeastOf(at) + Len(T_Text), TextAt(s, LeastOf(at)))
            \o SubTextFrom(s, TextAt(s, LeastOf(at)) + 1)

\* re.search(r"class\s+\w+\(Scene\):", code)
HasSceneClass(s) ==
    \E i \in 1..Len(s) :
        LET sp == After(s, i, <<"c", "l", "a", "s", "s">>)
            w == SkipSpace(s, sp)
            e == SkipWord(s, w) IN
        /\ sp # 0 /\ w > sp /\ e > w
        /\ StartsWith(s, e, T_SceneColon)

\* the wrapping of a fragment in GeneratedScene.construct
Wrapped(s) ==
    LET lines == SplitLines(s) IN
    (<<"\n">> \o L_FromManimlibStar \o <<"\n", "\n">>
    \o <<"c", "l", "a", "s", "s", " ", "G", "e", "n", "e", "r", "a", "t", "e", "d", "S", "c", "e", "n", "e">>
    \o T_SceneColon \o <<"\n">> \o Blanks(4)
    \o <<"d", "e", "f", " ", "c", "o", "n", "s", "t", "r", "u", "c", "t", "(", "s", "e", "l", "f", ")", ":", "\n">>) \o JoinLines([i \in DOMAIN lines |-> Blanks(4) \o lines[i]]) \o <<"\n">>

\* code.replace('–', '-').replace('—', '-')
FixDashes(s) == [i \in DOMAIN s |-> IF s[i] \in {EnDash, EmDash} THEN "-" ELSE s[i]]

\* LLMService._post_process_code
_post_process_code(c) ==
    LET c1 == IF Find(c, N_FromManimlibImport, 1) = 0 THEN (L_FromManimlibStar \o <<"\n", "\n">>) \o c ELSE c
        c2 == SubRedrawFrom(c1, 1)
        c3 == SubWord(c2, <<"C", "r", "e", "a", "t", "e">>, <<"S", "h", "o", "w", "C", "r", "e", "a", "t", "i", "o", "n">>)
        c4 == FixDashes(c3)
        c5 == FixColors(c4, color_fixes)
        c6 == IF Find(c5, T_Text, 1) # 0 THEN SubTextFrom(c5, 1) ELSE c5
    IN  IF HasSceneClass(c6) THEN c6 ELSE Wrapped(c6)

\* the extracted codes the post-processing is applied to
PostArgs ==
    {[fn |-> "_post_process_code", code |-> c] :
        c \in {
            \* 'c = Circle()'
            <<"c", " ", "=", " ", "C", "i", "r", "c", "l", "e", "(", ")">>,
            \* 'from manimlib import *\nclass A(Scene):\n  pass'
            <<"f", "r", "o", "m", " ", "m", "a", "n", "i", "m", "l", "i", "b", " ", "i", "m", "p", "o", "r", "t", " ", "*", "\n", "c", "l", "a", "s", "s", " ", "A", "(", "S", "c", "e", "n", "e", ")", ":", "\n", " ", " ", "p", "a", "s", "s">>,
            \* 'class A(Scene):\n  Create(x)'
            <<"c", "l", "a", "s", "s", " ", "A", "(", "S", "c", "e", "n", "e", ")", ":", "\n", " ", " ", "C", "r", "e", "a", "t", "e", "(", "x", ")">>,
            \* 'x = always_redraw(f)'
            <<"x", " ", "=", " ", "a", "l", "w", "a", "y", "s", "_", "r", "e", "d", "r", "a", "w", "(", "f", ")">>,
            \* 'a = LIGHT_PINK <U+2013> CYAN'
            <<"a", " ", "=", " ", "L", "I", "G", "H", "T", "_", "P", "I", "N", "K", " ", EnDash, " ", "C", "Y", "A", "N">>,
            \* 'T("\\text{a}")'
            <<"T", "(", "\"", "\\", "t", "e", "x", "t", "{", "a", "}", "\"", ")">>,
            \* 'T("\\text{\\text{a}}")'
            <<"T", "(", "\"", "\\", "t", "e", "x", "t", "{", "\\", "t", "e", "x", "t", "{", "a", "}", "}", "\"", ")">>,
            \* '\\text{}'
            <<"\\", "t", "e", "x", "t", "{", "}">>,
            \* ''
            <<>>,
            \* 'class A(ThreeDScene):\n  pass'
            <<"c", "l", "a", "s", "s", " ", "A", "(", "T", "h", "r", "e", "e", "D", "S", "c", "e", "n", "e", ")", ":", "\n", " ", " ", "p", "a", "s", "s">>,
            \* 'Created = DARK_GREYS'
            <<"C", "r", "e", "a", "t", "e", "d", " ", "=", " ", "D", "A", "R", "K", "_", "G", "R", "E", "Y", "S">>,
            \* 'class A(Scene):\n  a=always_redraw( f )\n  b = always_redraw(g)'
            <<"c", "l", "a", "s", "s", " ", "A", "(", "S", "c", "e", "n", "e", ")", ":", "\n", " ", " ", "a", "=", "a", "l", "w", "a", "y", "s", "_", "r", "e", "d", "r", "a", "w", "(", " ", "f", " ", ")", "\n", " ", " ", "b", " ", "=", " ", "a", "l", "w", "a", "y", "s", "_", "r", "e", "d", "r", "a", "w", "(", "g", ")">>,
            \* 'c = Circle()\nself.play(ShowCreation(c))'
            <<"c", " ", "=", " ", "C", "i", "r", "c", "l", "e", "(", ")", "\n", "s", "e", "l", "f", ".", "p", "l", "a", "y", "(", "S", "h", "o", "w", "C", "r", "e", "a", "t", "i", "o", "n", "(", "c", ")", ")">>,
            \* 'class A(Scene):\n  t = MathTex("x")'
            <<"c", "l", "a", "s", "s", " ", "A", "(", "S", "c", "e", "n", "e", ")", ":", "\n", " ", " ", "t", " ", "=", " ", "M", "a", "t", "h", "T", "e", "x", "(", "\"", "x", "\"", ")">>}}

(* ---------------------- LLMService._is_code_scrambled ------------------ *)
\* the detector without its check of the lines after the fifth
ScrambledBySelfOnly(c) ==
    LET lines == SplitLines(strip(c)) IN
    \E i, j \in DOMAIN lines :
        /\ i < j
        /\ InLine(<<"s", "e", "l", "f", ".">>, lines[i])
        /\ InLine(<<"c", "l", "a", "s", "s", " ">>, lines[j])
        /\ InLine(<<"S", "c", "e", "n", "e">>, lines[j])

\* LLMService._is_code_scrambled.  lines = code.strip().split('\n'); the
\* flag import_found_early of check 1 is set and never read, so the first
\* five lines decide nothing.  Line numbers are those of Python plus one.
_is_code_scrambled(c) ==
    LET lines == SplitLines(strip(c))
        class_lines == {i \in DOMAIN lines :
                           /\ InLine(<<"c", "l", "a", "s", "s", " ">>, lines[i])
                           /\ InLine(<<"S", "c", "e", "n", "e">>, lines[i])}
        self_lines == {i \in DOMAIN lines : InLine(<<"s", "e", "l", "f", ".">>, lines[i])}
    IN  \/ \E i \in 6..Len(lines) : InLine(N_FromManimlibImport, lines[i])
        \/ /\ self_lines # {}
           /\ class_lines # {}
           /\ \E i \in class_lines : LeastOf(self_lines) < i /\ \A j \in class_lines : j <= i

\* the codes the detector is applied to
ScrambledArgs ==
    {[fn |-> "_is_code_scrambled", code |-> c] :
        c \in {
            \* 'from manimlib import *\nclass A(Scene):\n  def construct(self):\n    self.wait()'
            <<"f", "r", "o", "m", " ", "m", "a", "n", "i", "m", "l", "i", "b", " ", "i", "m", "p", "o", "r", "t", " ", "*", "\n", "c", "l", "a", "s", "s", " ", "A", "(", "S", "c", "e", "n", "e", ")", ":", "\n", " ", " ", "d", "e", "f", " ", "c", "o", "n", "s", "t", "r", "u", "c", "t", "(", "s", "e", "l", "f", ")", ":", "\n", " ", " ", " ", " ", "s", "e", "l", "f", ".", "w", "a", "i", "t", "(", ")">>,
            \* 'class A(Scene):\n  def construct(self):\n    c = Circle()\n    d = Square()\n    self.add(c)\nfrom manimlib import *'
            <<"c", "l", "a", "s", "s", " ", "A", "(", "S", "c", "e", "n", "e", ")", ":", "\n", " ", " ", "d", "e", "f", " ", "c", "o", "n", "s", "t", "r", "u", "c", "t", "(", "s", "e", "l", "f", ")", ":", "\n", " ", " ", " ", " ", "c", " ", "=", " ", "C", "i", "r", "c", "l", "e", "(", ")", "\n", " ", " ", " ", " ", "d", " ", "=", " ", "S", "q", "u", "a", "r", "e", "(", ")", "\n", " ", " ", " ", " ", "s", "e", "l", "f", ".", "a", "d", "d", "(", "c", ")", "\n", "f", "r", "o", "m", " ", "m", "a", "n", "i", "m", "l", "i", "b", " ", "i", "m", "p", "o", "r", "t", " ", "*">>,
            \* 'class A(Scene):\n  def construct(self):\n    c = Circle()\n    self.add(c)\nfrom manimlib import *'
            <<"c", "l", "a", "s", "s", " ", "A", "(", "S", "c", "e", "n", "e", ")", ":", "\n", " ", " ", "d", "e", "f", " ", "c", "o", "n", "s", "t", "r", "u", "c", "t", "(", "s", "e", "l", "f", ")", ":", "\n", " ", " ", " ", " ", "c", " ", "=", " ", "C", "i", "r", "c", "l", "e", "(", ")", "\n", " ", " ", " ", " ", "s", "e", "l", "f", ".", "a", "d", "d", "(", "c", ")", "\n", "f", "r", "o", "m", " ", "m", "a", "n", "i", "m", "l", "i", "b", " ", "i", "m", "p", "o", "r", "t", " ", "*">>,
            \* 'from manimlib import *\nself.wait()\nclass A(Scene):\n  pass'
            <<"f", "r", "o", "m", " ", "m", "a", "n", "i", "m", "l", "i", "b", " ", "i", "m", "p", "o", "r", "t", " ", "*", "\n", "s", "e", "l", "f", ".", "w", "a", "i", "t", "(", ")", "\n", "c", "l", "a", "s", "s", " ", "A", "(", "S", "c", "e", "n", "e", ")", ":", "\n", " ", " ", "p", "a", "s", "s">>,
            \* 'from manimlib import *\nclass A(Scene):\n  def construct(self):\n    self.wait()\nclass B(Scene):\n  def construct(self):\n    self.wait()'
            <<"f", "r", "o", "m", " ", "m", "a", "n", "i", "m", "l", "i", "b", " ", "i", "m", "p", "o", "r", "t", " ", "*", "\n", "c", "l", "a", "s", "s", " ", "A", "(", "S", "c", "e", "n", "e", ")", ":", "\n", " ", " ", "d", "e", "f", " ", "c", "o", "n", "s", "t", "r", "u", "c", "t", "(", "s", "e", "l", "f", ")", ":", "\n", " ", " ", " ", " ", "s", "e", "l", "f", ".", "w", "a", "i", "t", "(", ")", "\n", "c", "l", "a", "s", "s", " ", "B", "(", "S", "c", "e", "n", "e", ")", ":", "\n", " ", " ", "d", "e", "f", " ", "c", "o", "n", "s", "t", "r", "u", "c", "t", "(", "s", "e", "l", "f", ")", ":", "\n", " ", " ", " ", " ", "s", "e", "l", "f", ".", "w", "a", "i", "t", "(", ")">>,
            \* '\nfrom manimlib import *\n\nclass GeneratedScene(Scene):\n    def construct(self):\n    from manimlib import *\n    \n    c = Circle()\n'
            <<"\n", "f", "r", "o", "m", " ", "m", "a", "n", "i", "m", "l", "i", "b", " ", "i", "m", "p", "o", "r", "t", " ", "*", "\n", "\n", "c", "l", "a", "s", "s", " ", "G", "e", "n", "e", "r", "a", "t", "e", "d", "S", "c", "e", "n", "e", "(", "S", "c", "e", "n", "e", ")", ":", "\n", " ", " ", " ", " ", "d", "e", "f", " ", "c", "o", "n", "s", "t", "r", "u", "c", "t", "(", "s", "e", "l", "f", ")", ":", "\n", " ", " ", " ", " ", "f", "r", "o", "m", " ", "m", "a", "n", "i", "m", "l", "i", "b", " ", "i", "m", "p", "o", "r", "t", " ", "*", "\n", " ", " ", " ", " ", "\n", " ", " ", " ", " ", "c", " ", "=", " ", "C", "i", "r", "c", "l", "e", "(", ")", "\n">>,
            \* 'class A(Scene):\n  def construct(self):\n    self.wait()'
            <<"c", "l", "a", "s", "s", " ", "A", "(", "S", "c", "e", "n", "e", ")", ":", "\n", " ", " ", "d", "e", "f", " ", "c", "o", "n", "s", "t", "r", "u", "c", "t", "(", "s", "e", "l", "f", ")", ":", "\n", " ", " ", " ", " ", "s", "e", "l", "f", ".", "w", "a", "i", "t", "(", ")">>,
            \* 'x = 1\nclass A(Scene):\n  def construct(self):\n    c = Circle()\n    self.add(c)\nimport manimlib'
            <<"x", " ", "=", " ", "1", "\n", "c", "l", "a", "s", "s", " ", "A", "(", "S", "c", "e", "n", "e", ")", ":", "\n", " ", " ", "d", "e", "f", " ", "c", "o", "n", "s", "t", "r", "u", "c", "t", "(", "s", "e", "l", "f", ")", ":", "\n", " ", " ", " ", " ", "c", " ", "=", " ", "C", "i", "r", "c", "l", "e", "(", ")", "\n", " ", " ", " ", " ", "s", "e", "l", "f", ".", "a", "d", "d", "(", "c", ")", "\n", "i", "m", "p", "o", "r", "t", " ", "m", "a", "n", "i", "m", "l", "i", "b">>,
            \* ''
            <<>>}}

\* the calls of the text functions
TextArgs == RetrieveArgs \cup ExtractArgs \cup PostArgs \cup ScrambledArgs

\* one text function applied to drawn arguments
InitText ==
    /\ InitState
    /\ textual = TRUE
    /\ module = <<>>
    /\ scene_name = 0
    /\ outdir = {}
    /\ unit = "text"
    /\ picked = 0
    /\ todo = <<>>
    /\ rendered = <<>>
    /\ video = NoVideo
    /\ arg \in TextArgs
    /\ ret = <<>>

\* knowledge = retrieve_relevant_knowledge(prompt, max_sections)
Retrieve ==
    /\ unit = "text"
    /\ arg.fn = "retrieve_relevant_knowledge"
    /\ ret' = retrieve_relevant_knowledge(arg.prompt, arg.max_sections)
    /\ unit' = "returned"
    /\ UNCHANGED <<module, scene_name, outdir, picked, todo, rendered, video, arg>>
    /\ UNCHANGED serviceVars

\* code = self._extract_code(code_resp)
ExtractCode ==
    /\ unit = "text"
    /\ arg.fn = "_extract_code"
    /\ ret' = _extract_code(arg.response)
    /\ unit' = "returned"
    /\ UNCHANGED <<module, scene_name, outdir, picked, todo, rendered, video, arg>>
    /\ UNCHANGED serviceVars

\* code = self._post_process_code(code)
PostProcess ==
    /\ unit = "text"
    /\ arg.fn = "_post_process_code"
    /\ ret' = _post_process_code(arg.code)
    /\ unit' = "returned"
    /\ UNCHANGED <<module, scene_name, outdir, picked, todo, rendered, video, arg>>
    /\ UNCHANGED serviceVars

\* _post_process_code applied to its own result
PostProcessAgain ==
    /\ unit = "returned"
    /\ arg.fn = "_post_process_code"
    /\ ret' = _post_process_code(ret)
    /\ unit' = "again"
    /\ UNCHANGED <<module, scene_name, outdir, picked, todo, rendered, video, arg>>
    /\ UNCHANGED serviceVars

\* if self._is_code_scrambled(code):
IsCodeScrambled ==
    /\ unit = "text"
    /\ arg.fn = "_is_code_scrambled"
    /\ ret' = _is_code_scrambled(arg.code)
    /\ unit' = "returned"
    /\ UNCHANGED <<module, scene_name, outdir, picked, todo, rendered, video, arg>>
    /\ UNCHANGED serviceVars

NextText ==
    \/ Retrieve
    \/ ExtractCode
    \/ PostProcess
    \/ PostProcessAgain
    \/ IsCodeScrambled

(* --------------------------- specification ----------------------------- *)
Next ==
    \/ \E r \in Reqs : Arrive(r)
    \/ \E r \in Reqs : StartHandler(r)
    \/ \E r \in Reqs : RcMkdtemp(r)
    \/ \E r \in Reqs : RcWrite(r)
    \/ \E r \in Reqs : RcCompile(r)
    \/ \E r \in Reqs : RcDenylist(r)
    \/ \E r \in Reqs : RcLoad(r)
    \/ \E r \in Reqs : RcFind(r)
    \/ \E r \in Reqs : RcChdir(r)
    \/ \E r \in Reqs : RcRun(r)
    \/ \E r \in Reqs : RcDiscover(r)
    \/ \E r \in Reqs : RcExcept(r)
    \/ \E r \in Reqs : EpCheck(r)
    \/ \E r \in Reqs : EpExcept(r)
    \/ \E r \in Reqs : SendOK(r)
    \/ \E r \in Reqs : SendAbort(r)
    \/ \E r \in Reqs : BgCheck(r)
    \/ \E r \in Reqs : BgCleanup(r)
    \/ \E r \in Reqs : BgDel(r)
    \/ \E r \in Reqs : GvLoop(r)
    \/ \E r \in Reqs : GmKey(r)
    \/ \E r \in Reqs : GmStoryboard(r)
    \/ \E r \in Reqs : GmScript(r)
    \/ \E r \in Reqs : GmCode(r)
    \/ \E r \in Reqs : GvTts(r)
    \/ \E r \in Reqs : GvAfter(r)
    \/ \E r \in Reqs : GvExcept(r)
    \/ ShutdownBegin
    \/ DrainStep
    \/ DrainClear
    \/ HealthArrive
    \/ HealthAnswer

Spec == Init /\ [][Next]_vars

SpecCall == InitCall /\ [][Next]_vars

\* the steps the program takes for request r once it has arrived
ProgramStep(r) ==
    \/ StartHandler(r)
    \/ RcMkdtemp(r)
    \/ RcWrite(r)
    \/ RcCompile(r)
    \/ RcDenylist(r)
    \/ RcLoad(r)
    \/ RcFind(r)
    \/ RcChdir(r)
    \/ RcRun(r)
    \/ RcDiscover(r)
    \/ RcExcept(r)
    \/ EpCheck(r)
    \/ EpExcept(r)
    \/ SendOK(r)
    \/ SendAbort(r)
    \/ BgCheck(r)
    \/ BgCleanup(r)
    \/ BgDel(r)
    \/ GvLoop(r)
    \/ GmKey(r)
    \/ GmStoryboard(r)
    \/ GmScript(r)
    \/ GmCode(r)
    \/ GvTts(r)
    \/ GvAfter(r)
    \/ GvExcept(r)

\* a step of the program that can be taken is taken in the end
Fairness == \A r \in Reqs : WF_vars(ProgramStep(r))

\* one request followed through a service that keeps running
SpecCallFair == InitCall /\ [][Next]_vars /\ Fairness

\* find_scene_class, the runner and the output discovery on drawn inputs
SpecUnit == InitUnit /\ [][NextUnit]_vars

\* the text functions on drawn arguments
SpecText == InitText /\ [][NextText]_vars

(* ------------------------------ properties ----------------------------- *)
RenderCodePcs == {"rc_mkdtemp", "rc_assets", "rc_compile", "rc_denylist", "rc_load",
                  "rc_find", "rc_chdir", "rc_run", "rc_discover", "rc_except", "rc_hung"}
ContentPcs == {"gm_key", "gm_storyboard", "gm_script", "gm_code"}
GenerateVideoPcs == {"gv_loop", "gv_tts", "gv_after", "gv_except"} \cup ContentPcs
CriticalPcs == RenderCodePcs \cup GenerateVideoPcs

\* C1: at most one request at a time is inside render_code / generate_video,
\* however /render and /generate requests arrive and interleave.
C1_MutualExclusion ==
    Cardinality({r \in Reqs : pc[r] \in CriticalPcs}) <= 1

\* a /generate request is inside generate_video while a /render request waits
C1_Witness ==
    \E r, q \in Reqs :
        /\ pc[r] \in GenerateVideoPcs
        /\ pc[q] = "queued" /\ kind[q] = "render"

\* C2: scene code is never loaded or executed inside the service process,
\* only in a separate child process.
C2_NeverInService == \A r \in Reqs : loadedIn[r] # "service"

\* render_code is over for request r: it returned or it raised
RenderCodeOver(r) ==
    \/ pc[r] = "ep_check" /\ kind[r] = "render"
    \/ pc[r] = "gv_after"
    \/ pc[r] = "ep_except" /\ kind[r] = "render"
    \/ pc[r] = "gv_except"
         /\ exc[r] \in {<<"mkdtemp: OSError">>, <<"debug_info: OSError">>}

RenderCodeRaised(r) ==
    /\ pc[r] \in {"ep_except", "gv_except"}
    /\ exc[r] \in {<<"mkdtemp: OSError">>, <<"debug_info: OSError">>}

ChecksPass(c) == c.compiles /\ RenderDenied(c.text) = NoErr

CheckFailures == {<<"syntax errors">>, <<"uses manim instead of manimlib">>,
                  <<"hallucinated module manif">>}

\* C3: render_code loads the code only after the compile check and the
\* illegal-import check have passed; when either check fails nothing is loaded
\* and a RenderResult with success = false is returned.
C3_ChecksBeforeLoad ==
    [][\A r \in Reqs :
        /\ loadedIn'[r] # "none" => ChecksPass(code'[r])
        /\ (pc[r] = "rc_except" /\ exc[r] \in CheckFailures /\ pc'[r] # pc[r]) =>
              /\ pc'[r] \in {"ep_check", "gv_after"}
              /\ result'[r] # NoResult /\ ~result'[r].success
              /\ loadedIn'[r] = "none"]_vars

\* the ordering half of C3 alone: what is loaded has passed both checks, and a
\* submission that fails a check is never loaded
C3_LoadOnlyChecked ==
    \A r \in Reqs :
        /\ loadedIn[r] # "none" => ChecksPass(code[r])
        /\ (kind[r] = "render" /\ RenderCodeOver(r) /\ ~ChecksPass(code[r]))
              => loadedIn[r] = "none"

\* C4: render_code never propagates an exception: every failure ends in a
\* returned RenderResult with success = false and a non-empty error.
C4_NeverPropagates ==
    \A r \in Reqs :
        /\ ~RenderCodeRaised(r)
        /\ (pc[r] \in {"ep_check", "gv_after"} /\ ~result[r].success)
              => result[r].error # NoErr

\* C5: every workspace created for a request is deleted, at the latest by the
\* shutdown drain, it is deleted by one cleanup, and the workspace of a
\* successful result is not deleted before its response has been sent.
C5_WorkspaceLifecycle ==
    /\ shutdown = "down" => fs = {}
    /\ \A r \in Reqs : pc[r] = "send" => result[r].temp_dir \in fs
    /\ \A r \in Reqs : (pc[r] = "done" /\ status[r] # 200) =>
          \A w \in fs : w[1] # r

\* C6: after shutdown the registry is empty and cleanup() has been invoked on
\* every result that was registered when shutdown began.
C6_ShutdownDrains ==
    shutdown = "down" =>
        /\ Registered = {}
        /\ \A d \in drainSnap : cleanups[d] >= 1 /\ d \notin fs

\* shutdown has completed with results still registered when it began
C6_Witness == shutdown = "down" /\ drainSnap # {}

\* C7: cleanup() is idempotent: a second call, or a call on a result without
\* a workspace, raises nothing and leaves the state of one call, the directory
\* absent.
C7_CleanupIdempotent ==
    /\ \A d \in Workspaces \cup {NoDir} :
          LET once == cleanup(fs, d)
              twice == cleanup(once.fs, d) IN
          /\ ~once.raised /\ ~twice.raised
          /\ twice.fs = once.fs
          /\ d \notin once.fs
    /\ \A r \in Reqs : pc[r] # "bg_raised"
    /\ shutdown # "failed"
    /\ \A w \in Workspaces : cleanups[w] >= 1 => w \notin fs

\* cleanup() has been called a second time on the same result
C7_Witness == \E w \in Workspaces : cleanups[w] = 2

\* C8: in one call of generate_manim_content the storyboard stage and the
\* script stage run once each and the code stage at most 3 times; after a
\* failed code validation only the code stage is called again.
C8_StageCounts ==
    \A r \in Reqs :
        /\ calls[r].sb <= 1 /\ calls[r].sc <= 1 /\ calls[r].cg <= 3
        /\ calls[r].cg >= 1 => calls[r].sb = 1 /\ calls[r].sc = 1
        /\ pc[r] = "gv_tts" => calls[r].sb = 1 /\ calls[r].sc = 1 /\ calls[r].cg >= 1
        /\ (lastCodeErr[r] # NoErr /\ pc[r] \in ContentPcs) =>
              /\ pc[r] = "gm_code"
              /\ calls[r].sb = 1 /\ calls[r].sc = 1
              /\ calls[r].cg = cat[r]

\* the third code-stage call has been made and its validation failed too
C8_Witness ==
    \E r \in Reqs :
        /\ pc[r] = "gv_except" /\ calls[r].cg = 3
        /\ calls[r].sb = 1 /\ calls[r].sc = 1
        /\ lastCodeErr[r] # NoErr

C10_ContentGeneratorCalls ==
    \A r \in Reqs :
        /\ calls[r].gm <= 2 /\ Len(gmPrompts[r]) = calls[r].gm
        /\ calls[r].gm >= 1 => gmPrompts[r][1] = [base |-> r, hint |-> NoErr]
        /\ calls[r].gm = 2 =>
              /\ Len(attErrs[r]) >= 1 /\ attErrs[r][1] # NoErr
              /\ gmPrompts[r][2] = [base |-> r, hint |-> attErrs[r][1]]
        /\ calls[r].tsb <= 2 /\ calls[r].tsc <= 2 /\ calls[r].tcg <= 6

\* both attempts have used all their code-stage calls
C10_Witness ==
    \E r \in Reqs :
        calls[r].gm = 2 /\ calls[r].tcg = 6 /\ calls[r].tsb = 2 /\ calls[r].tsc = 2

\* C11: generate_manim_content gives the model the request's API key whenever
\* the request has one and the default key of the process only when it has
\* none; with neither it fails with the configuration error before any
\* knowledge retrieval and before any model call.
C11_KeyResolution ==
    \A r \in Reqs :
        /\ sentKey[r] # "none" =>
              sentKey[r] = (IF reqKey[r] THEN "request" ELSE "default")
        /\ sentKey[r] = "default" => defaultKey
        /\ calls[r].sb + calls[r].sc + calls[r].cg + calls[r].kn > 0 =>
              sentKey[r] # "none"
        /\ (kind[r] = "generate" /\ ~reqKey[r] /\ ~defaultKey) =>
              /\ calls[r].kn = 0 /\ calls[r].tsb = 0 /\ calls[r].tsc = 0
              /\ calls[r].tcg = 0 /\ sentKey[r] = "none"
              /\ pc[r] \notin ContentPcs \ {"gm_key"}
              /\ pc[r] = "gv_except" => exc[r] = <<"Groq API key is required.">>

\* a request with a key of its own has reached the code stage with that key
\* although the process has a default key
C11_Witness ==
    \E r \in Reqs :
        /\ reqKey[r] /\ defaultKey /\ sentKey[r] = "request"
        /\ calls[r].cg >= 1 /\ calls[r].kn = 2

StageOrder == <<"content", "content returned", "narration", "narration returned",
                "render_code">>

\* C12: within each attempt of generate_video the stages run in the order
\* content generation, narration synthesis, render, each starting only after
\* the one before it returned; the narration is synthesized at most once per
\* attempt, and when it fails render_code is not called in that attempt: the
\* next attempt is all that follows.
C12_StageOrder ==
    \A r \in Reqs :
        /\ Len(stages[r]) <= Len(StageOrder)
        /\ stages[r] = SubSeq(StageOrder, 1, Len(stages[r]))
        /\ (kind[r] = "generate" /\ pc[r] = "rc_mkdtemp") =>
              stages[r] = SubSeq(StageOrder, 1, 4)
        /\ (kind[r] = "generate" /\ pc[r] \in RenderCodePcs \ {"rc_mkdtemp"}) =>
              stages[r] = StageOrder
        /\ pc[r] = "gv_tts" => stages[r] = SubSeq(StageOrder, 1, 2)
        /\ (pc[r] = "gv_except" /\ exc[r] = <<"gTTSError">>) =>
              stages[r] = SubSeq(StageOrder, 1, 3)
        /\ calls[r].tts <= calls[r].gm

\* the narration of the second attempt has failed after the first attempt got
\* as far as the renderer
C12_Witness ==
    \E r \in Reqs :
        /\ pc[r] = "gv_except" /\ exc[r] = <<"gTTSError">>
        /\ att[r] = 1 /\ calls[r].tts = 2
        /\ stages[r] = SubSeq(StageOrder, 1, 3)

C14_DispatcherNotStalled ==
    \A r \in Reqs :
        (health = "waiting" /\ healthAt = r) => loop = r

\* render_code found no output file after a scene run without error
NoOutputResult(res) ==
    ~res.success /\ res.error = <<"No video file generated", "debug_info">>

\* C15: when the scene run finishes without error but the expected output
\* file does not exist, the request is answered with HTTP 500, not with the
\* 400 of a render failure.
C15_MissingOutputIs500 ==
    [][\A r \in Reqs :
        (pc[r] = "ep_check" /\ kind[r] = "render" /\ NoOutputResult(result[r])
            /\ pc'[r] = "done") => status'[r] = 500]_vars

\* `part in text` for texts that are tuples of tokens
Contains(text, part) ==
    \E i \in 1..(Len(text) - Len(part) + 1) :
        SubSeq(text, i, i + Len(part) - 1) = part

\* C16: POST /render with code that does not parse is answered with HTTP 400
\* and a JSON body whose `error` field describes the syntax problem.
C16_SyntaxErrorBody ==
    [][\A r \in Reqs :
        (pc[r] = "ep_check" /\ kind[r] = "render" /\ ~result[r].success
            /\ Contains(result[r].error, <<"syntax errors">>)
            /\ pc'[r] = "done") =>
              /\ status'[r] = 400
              /\ body'[r].field = "error"
              /\ Contains(body'[r].text, <<"syntax errors">>)]_vars

\* C17: an exception that is not handled as a render failure, caught by the
\* catch-all of an endpoint or by the global handler, is answered with HTTP
\* 500 and a body that does not contain the text of the exception.
C17_NoExceptionText ==
    [][\A r \in Reqs :
        /\ (pc[r] = "ep_except" /\ pc'[r] = "done") =>
              /\ status'[r] = 500
              /\ ~Contains(body'[r].text, exc[r])
        /\ (pc[r] = "send" /\ pc'[r] = "aborted" /\ status'[r] = 500) =>
              ~Contains(body'[r].text, FileGone)]_vars

\* the files of the output directory that match the expected stem
Matching(out, ws) == out \cap ({ExpectedStem(ws)} \cup SegmentStems(ws))

LexRank(stem) ==
    CASE stem[1] = "output" -> 0
      [] stem[1] = "output_00" -> 1
      [] stem[1] = "output_01" -> 2
      [] OTHER -> 3

\* the files of S in lexical order
RECURSIVE Lexical(_)
Lexical(S) ==
    IF S = {} THEN <<>>
    ELSE LET m == CHOOSE x \in S : \A y \in S : LexRank(x) <= LexRank(y) IN
         <<m>> \o Lexical(S \ {m})

\* C18: when a render leaves more than one output segment matching the
\* expected stem, the video of the returned result is one merged file holding
\* every matched segment in lexical order, not one of the segments.
C18_MergedOutput ==
    (unit = "discovered" /\ Cardinality(Matching(outdir, UnitWS)) > 1) =>
        video.parts = Lexical(Matching(outdir, UnitWS))

\* C19: with no scene name the runner renders every Scene subclass of the
\* module, in the order of their definition in the source, each to a file
\* name of its own: the base stem and an index.
C19_RunnerDefinitionOrder ==
    (unit = "runner_exit_0" /\ scene_name = 0) =>
        /\ Len(rendered) = Len(module)
        /\ \A i \in DOMAIN rendered : rendered[i].name = module[i]
        /\ \A i, j \in DOMAIN rendered :
              i # j => rendered[i].file # rendered[j].file
        /\ Len(rendered) > 1 =>
              \A i \in DOMAIN rendered : rendered[i].file.index = i - 1

\* C20: render_code without a scene name, on code that defines several
\* Scene subclasses, renders the one defined last in the source.
C20_LastDefinedScene ==
    (unit = "found" /\ scene_name = 0 /\ Len(module) > 1) =>
        picked = module[Len(module)]

LoadedPcs == {"rc_load", "rc_find", "rc_chdir", "rc_run", "rc_discover"}

\* C21: code with the text `import manim` on any line, at any position of
\* the line, is rejected by the validation of the content generator and by
\* render_code, and is never executed.
C21_ImportManimRejected ==
    \A r \in Reqs :
        /\ InCode(N_ImportManim, code[r].text) =>
              /\ pc[r] \notin LoadedPcs
              /\ loadedIn[r] = "none"
              /\ ~result[r].success
              /\ kind[r] = "render"
        /\ (InCode(N_ImportManim, code[r].text) /\ pc[r] = "rc_except") =>
              exc[r] \in {<<"uses manim instead of manimlib">>, <<"write: OSError">>,
                          <<"syntax errors">>}

\* render_code has rejected code whose second line ends in `import manim`
C21_Witness ==
    \E r \in Reqs :
        /\ code[r].text = <<L_FromManimlibStar, L_Trailing>> /\ code[r].syntaxOK
        /\ pc[r] = "rc_except"
        /\ exc[r] = <<"uses manim instead of manimlib">>

\* C22: a render whose scene never terminates is cut off after a bounded
\* time and ends as any other failure does, so every /render and /generate
\* request that is waiting for its handler is answered in the end.
C22_EveryRequestAnswered ==
    \A r \in Reqs : (pc[r] = "queued") ~> (status[r] # 0)

\* C23: for a query in which no keyword of the table occurs,
\* retrieve_relevant_knowledge returns exactly the fixed default section
\* list and not the baseline sections.
C23_NoKeywordGivesDefaults ==
    (/\ unit = "returned"
     /\ arg.fn = "retrieve_relevant_knowledge"
     /\ Matched(lower(arg.prompt)) = <<>>)
        => ret = DefaultSections

\* place of entry k when the entries are ordered by descending score, ties
\* in insertion order
Rank(scores, k) ==
    1 + Cardinality({j \in DOMAIN scores :
                        \/ scores[j].score > scores[k].score
                        \/ scores[j].score = scores[k].score /\ j < k})

\* C24: for every query and max_sections >= 0, retrieve_relevant_knowledge
\* returns the bodies of at most max_sections sections: the first
\* max_sections entries of the sections ordered by descending score, ties in
\* the insertion order of the score table.
C24_FirstMaxSections ==
    (unit = "returned" /\ arg.fn = "retrieve_relevant_knowledge") =>
        LET scores == section_scores(arg.prompt) IN
        /\ Len(ret) <= arg.max_sections
        /\ \A i \in 1..Len(scores) :
              i <= arg.max_sections =>
                  /\ i <= Len(ret)
                  /\ \E k \in DOMAIN scores :
                        Rank(scores, k) = i /\ scores[k].section = ret[i]

\* C25: under any interleaving of registrations by requests, cleanup_render
\* tasks and the shutdown drain, no operation fails (no missing key on
\* delete, no failure of the iteration) and no registered result leaves the
\* registry, removed or overwritten, with its workspace still on disk.
C25_RegistryInterleavings ==
    /\ [](/\ \A r \in Reqs : pc[r] # "bg_keyerror"
          /\ shutdown # "failed")
    /\ [][\A k \in Keys :
            (registry[k] # NoResult /\ registry'[k] # registry[k])
                => registry[k].temp_dir \notin fs']_vars

\* C26: render_code never deletes the workspace: when it returns, with a
\* successful or a failed result, the workspace of the result is on disk, and
\* a workspace leaves the disk only by a cleanup() call on its result.
C26_WorkspaceKept ==
    [][/\ \A r \in Reqs :
            (pc[r] \in RenderCodePcs /\ pc'[r] # pc[r]) =>
                /\ fs \subseteq fs'
                /\ pc'[r] = OnReturn(r) =>
                      /\ result'[r].temp_dir = WS(r)
                      /\ result'[r].temp_dir \in fs'
       /\ \A w \in Workspaces :
            (w \in fs /\ w \notin fs') => cleanups'[w] = cleanups[w] + 1]_vars

\* render_code has returned a failed result to one request while the
\* successful result of another waits to be sent, both workspaces on disk
C26_Witness ==
    \E r, q \in Reqs :
        /\ pc[r] = "ep_check" /\ ~result[r].success /\ result[r].temp_dir \in fs
        /\ pc[q] = "send" /\ result[q].success /\ result[q].temp_dir \in fs

\* C27: the first code-stage attempt is given the unmodified prompt, every
\* later attempt a prompt that holds the error text of the attempt before it
\* and the original request, and after the third failed attempt the error
\* raised carries the last error.
C27_CodeRetryPrompts ==
    \A r \in Reqs :
        /\ Len(cgLog[r]) <= max_code_attempts
        /\ \A k \in 1..Len(cgLog[r]) :
              /\ cgLog[r][k].prompt.prompt = gmPrompts[r][Len(gmPrompts[r])]
              /\ k = 1 => cgLog[r][k].prompt.error = NoErr
              /\ k > 1 => /\ cgLog[r][k - 1].error # NoErr
                          /\ cgLog[r][k].prompt.error = cgLog[r][k - 1].error
        /\ (/\ Len(cgLog[r]) = max_code_attempts
            /\ cgLog[r][max_code_attempts].error # NoErr
            /\ pc[r] = "gv_except") =>
              exc[r] = <<"Code generation failed after", ToString(max_code_attempts),
                         "attempts">> \o cgLog[r][max_code_attempts].error

\* the third code-stage attempt has failed after two different errors
C27_Witness ==
    \E r \in Reqs :
        /\ pc[r] = "gv_except"
        /\ Len(cgLog[r]) = max_code_attempts
        /\ cgLog[r][1].error # cgLog[r][2].error
        /\ cgLog[r][2].error # cgLog[r][3].error
        /\ cgLog[r][3].error # NoErr

\* the source the priority order names: the tag pair whenever one matches,
\* else the fenced block whenever one matches, else the heuristic scan
PrioritySource(response) ==
    IF TagSearch(response).found THEN TagSearch(response).group
    ELSE IF FenceSearch(response).found THEN FenceSearch(response).group
    ELSE Heuristic(response).group

\* C28: _extract_code takes the content of a [CODE]...[/CODE] pair whenever
\* one is present, else the content of a fenced block, else the text from the
\* earliest code-start token, else the whole response; a source of lower
\* priority is never used while one of higher priority matches.
C28_ExtractionPriority ==
    (unit = "returned" /\ arg.fn = "_extract_code") =>
        ret = dedent(strip(PrioritySource(arg.response)))

\* C29: for [CODE]...[/CODE] around a snippet whose lines all carry a common
\* indentation of k blanks, _extract_code returns the snippet with exactly k
\* blanks removed from every line, without the tags and without blank lines
\* at either end.
C29_TaggedSnippetDedented ==
    (unit = "returned" /\ arg.fn = "_extract_code" /\ arg.snippet # <<>>) =>
        ret = JoinLines(arg.snippet)

\* C30: _post_process_code is idempotent: applied to its own result it
\* changes nothing, and so the import line is not inserted a second time.
C30_PostProcessIdempotent ==
    [][(unit = "returned" /\ unit' = "again") => ret' = ret]_vars

\* C31: when _post_process_code finds no scene class, every line of the
\* original body is nested inside the construct method of the synthetic
\* GeneratedScene class: it is indented deeper than the `def construct` line
C31_FragmentInsideConstruct ==
    (unit = "returned" /\ arg.fn = "_post_process_code") =>
        LET lines == SplitLines(ret)
            header == {i \in DOMAIN lines :
                          lines[i] = <<"c", "l", "a", "s", "s", " ", "G", "e", "n", "e", "r", "a", "t", "e", "d", "S", "c", "e", "n", "e">> \o T_SceneColon}
            def == {i \in DOMAIN lines :
                       strip(lines[i]) = <<"d", "e", "f", " ", "c", "o", "n", "s", "t", "r", "u", "c", "t", "(", "s", "e", "l", "f", ")", ":">>}
        IN  (~HasSceneClass(arg.code) /\ header # {} /\ def # {}) =>
                \A i \in (LeastOf(def) + 1)..Len(lines) :
                    strip(lines[i]) # <<>> =>
                        Len(Leading(lines[i])) > Len(Leading(lines[LeastOf(def)]))

\* C32: the text returned by _post_process_code never holds the identifier
\* MathTex
C32_NoMathTex ==
    (unit = "returned" /\ arg.fn = "_post_process_code") =>
        Find(ret, <<"M", "a", "t", "h", "T", "e", "x">>, 1) = 0

\* the required import stands on a line after line 5
ImportAfterFive(lines) ==
    \E i \in 6..Len(lines) : InLine(N_FromManimlibImport, lines[i])

\* the required import stands on line 1
ImportFirst(lines) == lines # <<>> /\ InLine(N_FromManimlibImport, lines[1])

\* a line with `self.` stands before a line that defines a scene class
SelfBeforeClass(lines) ==
    \E i, j \in DOMAIN lines :
        /\ i < j
        /\ InLine(<<"s", "e", "l", "f", ".">>, lines[i])
        /\ InLine(<<"c", "l", "a", "s", "s", " ">>, lines[j])
        /\ InLine(<<"S", "c", "e", "n", "e">>, lines[j])

C37_MultiSceneNotFlagged ==
    (unit = "returned" /\ arg.fn = "_is_code_scrambled") =>
        LET lines == SplitLines(arg.code)
            classes == {i \in DOMAIN lines : HasSceneClass(lines[i]) /\ Leading(lines[i]) = <<>>}
        IN  (/\ ImportFirst(lines)
             /\ ~ImportAfterFive(lines)
             /\ Cardinality(classes) >= 2
             /\ \A i \in DOMAIN lines :
                    InLine(<<"s", "e", "l", "f", ".">>, lines[i]) => i > LeastOf(classes))
            => ret = FALSE

\* C34: every code returned by generate_manim_content is accepted by the
\* static checks of render_code (compile and the illegal-import denylist)
C34_GeneratedCodePassesChecks ==
    \A r \in Reqs :
        (kind[r] = "generate" /\ code[r] # NoCode) =>
            code[r].compiles /\ RenderDenied(code[r].text) = NoErr

\* the code imports manimlib in one of the two accepted forms and holds no
\* other mention of a library
ImportsManimlibOnly(text) ==
    /\ \E k \in DOMAIN text : text[k] \in {L_ImportManimlib, L_FromManimlibStar}
    /\ \A k \in DOMAIN text : text[k] \in {L_ImportManimlib, L_FromManimlibStar, L_Body}

\* C36: code that imports manimlib with `import manimlib` or `from manimlib
\* import *` is rejected neither by the illegal-import check of the code stage
\* nor by that of render_code
C36_ManimlibImportAccepted ==
    \A r \in Reqs :
        /\ \A k \in DOMAIN cgLog[r] :
               ImportsManimlibOnly(cgLog[r][k].text) =>
                   (cgLog[r][k].error = NoErr \/ cgLog[r][k].error[1] # "illegal import")
        /\ (pc[r] = "rc_except" /\ ImportsManimlibOnly(code[r].text)) =>
               exc[r] # <<"uses manim instead of manimlib">>

\* C35: two results registered at the same time never have the same key: a
\* registered result is never replaced by another one, and a cleanup_render
\* task cleans and removes the result it was scheduled for
C35_DistinctRegistryKeys ==
    /\ [][\A k \in Keys :
            (registry[k] # NoResult /\ registry'[k] # NoResult)
                => registry'[k] = registry[k]]_vars
    /\ [](\A r \in Reqs :
            (pc[r] \in {"bg_cleanup", "bg_del"} /\ registry[TaskKey(r)] # NoResult)
                => registry[TaskKey(r)] = result[r])

\* C38: when generate_video returns, the only workspace of the call still on
\* disk is the one of the returned successful result; the workspaces of the
\* failed attempts are deleted, and none is left when the call fails
C38_FailedAttemptsCleaned ==
    [][\A r \in Reqs :
          (kind[r] = "generate" /\ pc[r] \in GenerateVideoPcs /\ pc'[r] = "ep_check") =>
              \A ws \in Workspaces :
                  (ws[1] = r /\ ws \in fs') =>
                      (result'[r].success /\ result'[r].temp_dir = ws)]_vars

\* C40: a RenderResult returned by render_code or generate_video has, with
\* success, a video_path inside its own workspace and no error, and without
\* success, no video_path and an error text that is not empty
C40_ResultWellFormed ==
    \A r \in Reqs :
        pc[r] \in {"ep_check", "gv_after"} =>
            IF result[r].success
            THEN /\ result[r].video_path # NoPath
                 /\ result[r].temp_dir # NoDir
                 /\ result[r].video_path.dir = result[r].temp_dir
                 /\ result[r].error = NoErr
            ELSE /\ result[r].video_path = NoPath
                 /\ result[r].error # NoErr

\* generate_video has returned its final failure after the last attempt
C40_Witness ==
    \E r \in Reqs :
        /\ pc[r] = "ep_check"
        /\ kind[r] = "generate"
        /\ ~result[r].success
        /\ result[r].temp_dir = NoDir
        /\ att[r] = max_attempts

====
